---------------------------- MODULE Spec2Model ----------------------------
(***************************************************************************)
(* dicemind: the dice-notation parser (parser.rs), the fast evaluation     *)
(* strategy (fast.rs), and the augmentation engines of the tagged          *)
(* (naive.rs) and verbose (verbose.rs) rolls.                               *)
(*                                                                         *)
(* A character is a one-character string; a &[char] slice is a sequence    *)
(* of characters.  Option and Result values are records tagged by k:       *)
(* "None", "Some" (v, rest), "Ok" (v), "Err" (err), and "Panic" for an     *)
(* abort of the program (index out of bounds, todo!()).                    *)
(***************************************************************************)
EXTENDS Integers, Sequences, FiniteSets, TLC

VARIABLES
    input,      \* the text handed to parse, as a sequence of characters
    pc,         \* position of the driver: "start", "parsed", "rolled", "done"
    result,     \* what parse returned for input
    value,      \* what FastRoller::roll returned for the parsed expression
    quantity,   \* evaluated quantity of the dice term being rolled
    power,      \* evaluated power of the dice term being rolled
    augments,   \* augmentation list of the dice term
    faces,      \* the faces the random source yields, in draw order
    dice,       \* naive.rs: Vec<TaggedDiceRoll> while augment runs
    step,       \* naive.rs: number of augmentations augment has applied
    before,     \* naive.rs: dice as they were before the last augmentation
    totals,     \* totals reported for the term by the tagged and fast strategies
    mass,       \* big.rs: the vector multiconvolve returned for the term
    candidate,  \* big.rs: the candidate sum u ziggurat drew last
    rejection,  \* big.rs: the rejection value v ziggurat drew last
    returned,   \* big.rs: the sum ziggurat returned
    trials,     \* simulate.rs: the number of trials asked for
    owner,      \* simulate.rs: the parallel worker each trial is folded by
    trial_values, \* simulate.rs: what each trial rolled, once it has
    tables,     \* simulate.rs: the partial frequency table of each worker
    output,     \* simulate.rs: what simulate returned
    rendered,   \* syntax.rs: the text Display gives the parsed expression
    reparsed,   \* what parse returned for the rendered text
    seed,       \* the u64 handed to new_seeded
    runs,       \* what each roller built from seed returned, in order of construction
    ambient,    \* big.rs: the times thread_rng() was taken
    caches,     \* big.rs: the keys each memoized function holds, oldest use first
    roller,     \* visitor.rs: the strategy the traversal runs on
    calls,      \* visitor.rs: the calls the traversal made on the strategy, in order
    visited,    \* visitor.rs: what the traversal returned
    verbose_rolls, \* verbose.rs: what verbose_roll returned for the term
    enabled_steps, \* simplify.rs: the Steps handed to advanced_simplify
    simplified    \* simplify.rs: what advanced_simplify returned for the term

vars == <<input, pc, result, value, quantity, power, augments, faces, dice,
          step, before, totals, mass, candidate,
          rejection, returned,
          trials, owner, trial_values, tables, output,
          rendered, reparsed,
          seed, runs, ambient,
          caches,
          roller, calls, visited,
          verbose_rolls,
          enabled_steps, simplified>>

parserVars == <<input, result, value>>
rollVars == <<quantity, power, augments, faces, dice, step, before, totals>>
bigVars == <<mass, candidate, rejection, returned>>
simVars == <<trials, owner, trial_values, tables, output>>
renderVars == <<rendered, reparsed>>
seedVars == <<seed, runs, ambient>>
cacheVars == <<caches>>
visitVars == <<roller, calls, visited>>
verboseVars == <<verbose_rolls>>
simplifyVars == <<enabled_steps, simplified>>

-----------------------------------------------------------------------------
(* Bounds of the model *)

MaxLen == 4          \* longest character string handed to parse
MaxTokens == 5       \* longest token sequence of an arithmetic input
MaxLiteral == 4      \* largest literal of an arithmetic input
MaxOperands == 4     \* most operands of an arithmetic chain
MaxQuantity == 3     \* most dice rolled for one term
MaxPower == 3        \* most faces of a die
MaxAugments == 2     \* longest augmentation list
MaxNumber == 2       \* largest number an augmentation carries
MaxExplosions == 1   \* faces drawn beyond the quantity when a term explodes
MaxFilters == 1      \* longest list of filters alone
WordBits == 14       \* bits of the 32-bit integers of the model
MaxCount == 3        \* most dice of a term sampled exactly
MaxFaces == 6        \* most faces of a die sampled exactly
MaxTrials == 3       \* most trials of a simulation
MaxWorkers == 2      \* most parallel workers of a simulation
MaxNesting == 3      \* most UnaryNegation nodes directly around an expression
MaxSeed == 1         \* largest seed handed to new_seeded
MaxRuns == 2         \* rollers built from one seed, per strategy
MaxOutcome == 2      \* largest value a trial of a simulation rolls

-----------------------------------------------------------------------------
(* Option / Result values *)

None == [k |-> "None"]
Some(v, rest) == [k |-> "Some", v |-> v, rest |-> rest]
Ok(v) == [k |-> "Ok", v |-> v]
Err(e) == [k |-> "Err", err |-> e]
Panic == [k |-> "Panic"]

\* &chars[n..]
From(chars, n) == SubSeq(chars, n + 1, Len(chars))

Reverse(s) == [i \in 1..Len(s) |-> s[Len(s) + 1 - i]]

-----------------------------------------------------------------------------
(* parser.rs: BinaryOperator, Expression, ParsingError *)

\* derive(PartialOrd) on the enum orders the variants by declaration:
\* Equals < LessThan < GreaterThan < Add < Subtract < Multiply.  The
\* comparison operator <= used by _parse is this derived order.
Discriminant(op) ==
    CASE op = "Equals" -> 0
      [] op = "LessThan" -> 1
      [] op = "GreaterThan" -> 2
      [] op = "Add" -> 3
      [] op = "Subtract" -> 4
      [] op = "Multiply" -> 5

\* the comparison turned around
OperatorGe(operator, top_op) == Discriminant(operator) >= Discriminant(top_op)

OperatorLe(operator, top_op) == Discriminant(operator) <= Discriminant(top_op)

Constant(n) == [kind |-> "Constant", c |-> n]
Subexpression(e) == [kind |-> "Subexpression", e |-> e]
UnaryNegation(e) == [kind |-> "UnaryNegation", e |-> e]
Binop(operator, lhs, rhs) ==
    [kind |-> "Binop", operator |-> operator, lhs |-> lhs, rhs |-> rhs]
Absent == [kind |-> "None"]
Annotated(expression, annotation) ==
    [kind |-> "Annotated", e |-> expression, annotation |-> annotation]
Dice(count, pow, augmentations) ==
    [kind |-> "Dice", count |-> count, power |-> pow,
     augmentations |-> augmentations]

Truncate(kind, affix, n) ==
    [aug |-> "Truncate", kind |-> kind, affix |-> affix, n |-> n]
Filter(kind, selector) == [aug |-> "Filter", kind |-> kind, selector |-> selector]
Emphasis(n) == [aug |-> "Emphasis", n |-> n]
Explode(selector) == [aug |-> "Explode", selector |-> selector]
Selector(relation, n) == [sel |-> "Some", relation |-> relation, n |-> n]
NoSelector == [sel |-> "None"]
\* Option<PositiveInteger>: -1 stands for None
NoNumber == -1

EmptyExpression == [e |-> "EmptyExpression"]
UnbalancedLeftParen == [e |-> "UnbalancedLeftParen"]
UnbalancedRightParen == [e |-> "UnbalancedRightParen"]
UndefinedSymbol(c) == [e |-> "UndefinedSymbol", char |-> c]
NoOperands(operator) == [e |-> "NoOperands", operator |-> operator]
MissingOperator == [e |-> "MissingOperator"]

-----------------------------------------------------------------------------
(* parser.rs: characters *)

AsciiDigits == {"0", "1", "2", "3", "4", "5", "6", "7", "8", "9"}

is_ascii_digit(c) == c \in AsciiDigits

to_digit(c) ==
    CASE c = "0" -> 0 [] c = "1" -> 1 [] c = "2" -> 2 [] c = "3" -> 3
      [] c = "4" -> 4 [] c = "5" -> 5 [] c = "6" -> 6 [] c = "7" -> 7
      [] c = "8" -> 8 [] c = "9" -> 9

is_whitespace(c) == c \in {" ", "\t", "\n", "\r"}

RECURSIVE Pow10(_)
Pow10(n) == IF n = 0 THEN 1 ELSE 10 * Pow10(n - 1)

\* the digits map_while(to_digit) collects: the longest prefix of digits
DigitsLen(chars) ==
    CHOOSE n \in 0..Len(chars) :
        /\ \A i \in 1..n : is_ascii_digit(chars[i])
        /\ n = Len(chars) \/ ~is_ascii_digit(chars[n + 1])

RECURSIVE NumberOf(_, _, _)
NumberOf(chars, len, i) ==
    IF i > len THEN 0
    ELSE to_digit(chars[i]) * Pow10(len - i) + NumberOf(chars, len, i + 1)

parse_number(chars) ==
    IF chars = <<>> THEN None
    ELSE IF ~is_ascii_digit(chars[1]) THEN None
    ELSE LET Digits(len) == Some(NumberOf(chars, len, 1), From(chars, len))
         IN  Digits(DigitsLen(chars))

parse_operator(char) ==
    CASE char = "+" -> "Add"
      [] char = "-" -> "Subtract"
      [] char = "*" -> "Multiply"
      [] char = ">" -> "GreaterThan"
      [] char = "<" -> "LessThan"
      [] char = "=" -> "Equals"
      [] OTHER -> "None"

parse_selector(chars) ==
    IF chars = <<>> THEN None
    ELSE IF chars[1] \notin {">", "<", "="} THEN None
    ELSE LET relation == CASE chars[1] = ">" -> "Greater"
                           [] chars[1] = "<" -> "Less"
                           [] chars[1] = "=" -> "Equal"
             Selected(num) == IF num.k = "None" THEN None
                              ELSE Some(Selector(relation, num.v), num.rest)
         IN  Selected(parse_number(From(chars, 1)))

parse_augment_explode(chars) ==
    IF chars = <<>> THEN None
    ELSE IF chars[1] = "!"
    THEN LET Exploding(sel) ==
                 IF sel.k = "Some" THEN Some(Explode(sel.v), sel.rest)
                 ELSE Some(Explode(NoSelector), From(chars, 1))
         IN  Exploding(parse_selector(From(chars, 1)))
    ELSE None

parse_augment_emphasis(chars) ==
    IF chars = <<>> THEN None
    ELSE IF chars[1] = "e"
    THEN LET Emphasised(num) ==
                 IF num.k = "Some" THEN Some(Emphasis(num.v), num.rest)
                 ELSE Some(Emphasis(NoNumber), From(chars, 1))
         IN  Emphasised(parse_number(From(chars, 1)))
    ELSE None

parse_truncation(chars) ==
    IF chars = <<>> THEN None
    ELSE IF chars[1] \notin {"k", "d"} THEN None
    ELSE IF Len(chars) < 2 THEN None
    ELSE IF chars[2] \notin {"l", "h"} THEN None
    ELSE LET kind == IF chars[1] = "k" THEN "Keep" ELSE "Drop"
             affix == IF chars[2] = "l" THEN "Low" ELSE "High"
             Truncated(num) ==
                 IF num.k = "Some" THEN Some(Truncate(kind, affix, num.v), num.rest)
                 ELSE Some(Truncate(kind, affix, NoNumber), From(chars, 2))
         IN  Truncated(parse_number(From(chars, 2)))

parse_filter(chars) ==
    IF chars = <<>> THEN None
    ELSE IF chars[1] \notin {"k", "d"} THEN None
    ELSE LET kind == IF chars[1] = "k" THEN "Keep" ELSE "Drop"
             Filtered(sel) == IF sel.k = "None" THEN None
                              ELSE Some(Filter(kind, sel.v), sel.rest)
         IN  Filtered(parse_selector(From(chars, 1)))

\* one round of the for loop over the parsers, in their fixed trial order
FirstAugment(chars) ==
    LET FirstOf(e, x, t, f) ==
            IF e.k = "Some" THEN e
            ELSE IF x.k = "Some" THEN x
            ELSE IF t.k = "Some" THEN t
            ELSE f
    IN  FirstOf(parse_augment_emphasis(chars), parse_augment_explode(chars),
                parse_truncation(chars), parse_filter(chars))

RECURSIVE AugmentsLoop(_, _)
AugmentsLoop(chars, augs) ==
    IF chars = <<>> THEN <<augs, chars>>
    ELSE LET Parsed1(a) ==
                 IF a.k = "Some" THEN AugmentsLoop(a.rest, Append(augs, a.v))
                 ELSE <<augs, chars>>
         IN  Parsed1(FirstAugment(chars))

parse_augments(chars) ==
    LET Collected(r) == IF r[1] # <<>> THEN Some(r[1], r[2]) ELSE None
    IN  Collected(AugmentsLoop(chars, <<>>))

-----------------------------------------------------------------------------
(* parser.rs: the recursive descent *)

push_operator(exprs, operator) ==
    IF Len(exprs) < 2 THEN Err(NoOperands(operator))
    ELSE LET n == Len(exprs)
         IN  Ok(Append(SubSeq(exprs, 1, n - 2),
                       Binop(operator, exprs[n - 1], exprs[n])))

\* while chars[0].is_whitespace() { chars = &chars[1..]; } : the index
\* chars[0] aborts once the slice runs out
RECURSIVE SkipWhitespace(_)
SkipWhitespace(chars) ==
    IF chars = <<>> THEN Panic
    ELSE IF is_whitespace(chars[1]) THEN SkipWhitespace(From(chars, 1))
    ELSE Ok(chars)

\* the depth counter forgotten: the first ')' closes the group
FirstRightParen(chars, i, unmatched) ==
    IF \E j \in i..Len(chars) : chars[j] = ")"
    THEN CHOOSE j \in i..Len(chars) :
             chars[j] = ")" /\ \A h \in i..(j - 1) : chars[h] # ")"
    ELSE 0

\* the index of the ')' matching the '(' at chars[1], 0 if there is none
RECURSIVE MatchingParen(_, _, _)
MatchingParen(chars, i, unmatched) ==
    IF i > Len(chars) THEN 0
    ELSE IF chars[i] = "(" THEN MatchingParen(chars, i + 1, unmatched + 1)
    ELSE IF chars[i] = ")"
    THEN IF unmatched - 1 = 0 THEN i
         ELSE MatchingParen(chars, i + 1, unmatched - 1)
    ELSE MatchingParen(chars, i + 1, unmatched)

RECURSIVE _parse(_)
RECURSIVE ParseLoop(_, _, _)
RECURSIVE parse_subexpr(_)
RECURSIVE parse_term(_)
RECURSIVE parse_dice(_)
RECURSIVE parse_term_or_dice(_)

parse_subexpr(chars) ==
    IF chars = <<>> THEN None
    ELSE IF chars[1] = ")" THEN Err(UnbalancedRightParen)
    ELSE IF chars[1] # "(" THEN None
    ELSE LET Inner(inner, rest) ==
                 IF inner.k = "Ok" THEN Some(inner.v, rest) ELSE inner
             Closing(i) ==
                 IF i = 0 THEN Err(UnbalancedLeftParen)
                 ELSE Inner(_parse(SubSeq(chars, 2, i - 1)), From(chars, i))
         IN  Closing(MatchingParen(chars, 1, 0))

parse_term(chars) ==
    LET Sub(sub) == IF sub.k = "Some" THEN Some(Subexpression(sub.v), sub.rest)
                    ELSE sub
        Num(num) == IF num.k = "Some" THEN Some(Constant(num.v), num.rest)
                    ELSE Sub(parse_subexpr(chars))
    IN  Num(parse_number(chars))

parse_dice(chars) ==
    LET Augmented(count, pow, chars2, augs) ==
            IF augs.k = "Some" THEN Some(Dice(count, pow, augs.v), augs.rest)
            ELSE Some(Dice(count, pow, <<>>), chars2)
        Sized(count, pow, chars2) ==
            Augmented(count, pow, chars2, parse_augments(chars2))
        Powered(count, chars1, p) ==
            IF p.k \in {"Err", "Panic"} THEN p
            ELSE IF p.k = "Some" THEN Sized(count, p.v, p.rest)
            ELSE IF Len(chars1) >= 2 /\ chars1[2] = "%"
            THEN Sized(count, Constant(100), From(chars1, 2))
            ELSE Sized(count, Absent, From(chars1, 1))
        Counted(count, chars1) ==
            IF chars1 = <<>> THEN None
            ELSE IF chars1[1] = "d"
            THEN Powered(count, chars1, parse_term(From(chars1, 1)))
            ELSE None
        Count(c) ==
            IF c.k \in {"Err", "Panic"} THEN c
            ELSE IF c.k = "Some" THEN Counted(c.v, c.rest)
            ELSE Counted(Absent, chars)
    IN  Count(parse_term(chars))

parse_term_or_dice(chars) ==
    LET DiceOr(d) == IF d.k # "None" THEN d ELSE parse_term(chars)
    IN  DiceOr(parse_dice(chars))

\* the two while-let/if statements after the scanning loop
RECURSIVE Drain(_, _)
Drain(expressions, operators) ==
    IF operators = <<>>
    THEN IF Len(expressions) # Len(operators) + 1 THEN Err(MissingOperator)
         ELSE IF expressions = <<>> THEN Err(EmptyExpression)
         ELSE Ok(expressions[Len(expressions)])
    ELSE LET Pushed(pushed) ==
                 IF pushed.k = "Err" THEN pushed
                 ELSE Drain(pushed.v, SubSeq(operators, 1, Len(operators) - 1))
         IN  Pushed(push_operator(expressions, operators[Len(operators)]))

\* what follows a parsed term in the loop body: the operator, if there is one
AfterTerm(chars, expressions, operators) ==
    IF chars = <<>> THEN Drain(expressions, operators)
    ELSE LET top_op == operators[Len(operators)]
             popped == SubSeq(operators, 1, Len(operators) - 1)
             Reduced(rest, operator, pushed) ==
                 IF pushed.k = "Err" THEN pushed
                 ELSE ParseLoop(rest, pushed.v, Append(popped, operator))
             Operator(rest, operator) ==
                 IF operator = "None"
                 THEN ParseLoop(rest, expressions, operators)
                 ELSE IF operators = <<>>
                 THEN ParseLoop(From(rest, 1), expressions, <<operator>>)
                 ELSE IF OperatorLe(operator, top_op)
                 THEN Reduced(From(rest, 1), operator,
                              push_operator(expressions, top_op))
                 ELSE ParseLoop(From(rest, 1), expressions,
                                Append(operators, operator))
             Skipped(ws) ==
                 IF ws.k = "Panic" THEN Panic
                 ELSE Operator(ws.v, parse_operator(ws.v[1]))
         IN  Skipped(SkipWhitespace(chars))

\* one iteration of `while !chars.is_empty()`
ParseLoop(chars, expressions, operators) ==
    IF chars = <<>> THEN Drain(expressions, operators)
    ELSE
    LET first == expressions = <<>> /\ operators = <<>>
        Term(negate, chars1, term) ==
            IF term.k \in {"Err", "Panic"} THEN term
            ELSE IF term.k = "None"
            THEN IF chars1 = <<>> THEN Panic
                 ELSE Err(UndefinedSymbol(chars1[1]))
            ELSE AfterTerm(term.rest,
                           Append(expressions,
                                  IF negate THEN UnaryNegation(term.v)
                                  ELSE term.v),
                           operators)
        Signed(negate, chars1) ==
            Term(negate, chars1, parse_term_or_dice(chars1))
        Skipped(ws) ==
            IF ws.k = "Panic" THEN Panic
            ELSE IF first /\ ws.v[1] \in {"-", "+"}
            THEN Signed(ws.v[1] = "-", From(ws.v, 1))
            ELSE Signed(FALSE, ws.v)
    IN  Skipped(SkipWhitespace(chars))

_parse(chars) == ParseLoop(chars, <<>>, <<>>)

parse(text) == _parse(text)
-----------------------------------------------------------------------------
(* visitor.rs, fast.rs: FastRoller over a parsed expression *)

\* The machine integers keep their two's complement shape at a width whose
\* sums and products TLC's integers can hold: i32 and u32 are WordBits wide,
\* i64 and isize one bit wider
RECURSIVE Pow2(_)
Pow2(n) == IF n = 0 THEN 1 ELSE 2 * Pow2(n - 1)

I32_MAX == Pow2(WordBits - 1) - 1
I32_MIN == -I32_MAX - 1
U32_MAX == Pow2(WordBits) - 1
I64_MAX == Pow2(WordBits) - 1
I64_MIN == -I64_MAX - 1
ISIZE_MAX == I64_MAX

FitsI32(n) == I32_MIN <= n /\ n <= I32_MAX
FitsI64(n) == I64_MIN <= n /\ n <= I64_MAX

\* two's complement wrapping into lo..hi
Wrap(n, lo, hi) == ((n - lo) % (hi - lo + 1)) + lo

\* an arithmetic operator without a check: exact while the result fits; past
\* the width it panics where overflow checks are compiled in (debug builds)
\* and wraps where they are not (release builds)
Unchecked(n, lo, hi) ==
    IF lo <= n /\ n <= hi THEN {Ok(n)} ELSE {Panic, Ok(Wrap(n, lo, hi))}

\* i32::checked_add / checked_sub / checked_mul followed by ok_or(Overflow)
Checked(n) == IF FitsI32(n) THEN Ok(n) ELSE Err("Overflow")

FastVisitConstant(c) == IF FitsI32(c) THEN Ok(c) ELSE Err("ValueTooLarge")

BoolToInt(b) == IF b THEN 1 ELSE 0

FastVisitBinop(op, lhs, rhs) ==
    IF lhs.k # "Ok" THEN lhs
    ELSE IF rhs.k # "Ok" THEN rhs
    ELSE CASE op = "Equals" -> Ok(BoolToInt(lhs.v = rhs.v))
           [] op = "LessThan" -> Ok(BoolToInt(lhs.v < rhs.v))
           [] op = "GreaterThan" -> Ok(BoolToInt(lhs.v > rhs.v))
           [] op = "Add" -> Checked(lhs.v + rhs.v)
           [] op = "Subtract" -> Checked(lhs.v - rhs.v)
           [] op = "Multiply" -> Checked(lhs.v * rhs.v)

FastVisitNegation(val) == IF val.k # "Ok" THEN val ELSE Checked(val.v * (-1))

\* Visitor::visit for an expression without dice terms (a dice term is
\* rolled by the roll actions below)
RECURSIVE FastVisit(_)
FastVisit(expr) ==
    CASE expr.kind = "Binop" ->
            FastVisitBinop(expr.operator, FastVisit(expr.lhs), FastVisit(expr.rhs))
      [] expr.kind = "Constant" -> FastVisitConstant(expr.c)
      [] expr.kind = "Subexpression" -> FastVisit(expr.e)
      [] expr.kind = "Annotated" -> FastVisit(expr.e)
      [] expr.kind = "UnaryNegation" ->
            IF expr.e.kind = "UnaryNegation" THEN FastVisit(expr.e.e)
            ELSE FastVisitNegation(FastVisit(expr.e))

RECURSIVE HasDice(_)
HasDice(expr) ==
    CASE expr.kind = "Binop" -> HasDice(expr.lhs) \/ HasDice(expr.rhs)
      [] expr.kind = "Constant" -> FALSE
      [] expr.kind \in {"Subexpression", "UnaryNegation", "Annotated"} ->
            HasDice(expr.e)
      [] expr.kind = "Dice" -> TRUE

-----------------------------------------------------------------------------
(* Inputs *)

Alphabet == {"1", "2", " ", "+", "-", "*", "(", ")", "d", "x"}

RECURSIVE Strings(_)
Strings(n) ==
    IF n = 0 THEN {<<>>}
    ELSE LET shorter == Strings(n - 1)
         IN  shorter \cup {Append(s, c) : s \in {t \in shorter : Len(t) = n - 1},
                                           c \in Alphabet}

\* the decimal digits of a literal
RECURSIVE DigitsOf(_)
Digit(n) == CASE n = 0 -> "0" [] n = 1 -> "1" [] n = 2 -> "2" [] n = 3 -> "3"
              [] n = 4 -> "4" [] n = 5 -> "5" [] n = 6 -> "6" [] n = 7 -> "7"
              [] n = 8 -> "8" [] n = 9 -> "9"
DigitsOf(n) == IF n < 10 THEN <<Digit(n)>> ELSE Append(DigitsOf(n \div 10), Digit(n % 10))

Symbol(op) == CASE op = "Add" -> "+" [] op = "Subtract" -> "-" [] op = "Multiply" -> "*"

\* literals from 2 on, so that a product differs from both of its factors
Literals == 2..MaxLiteral
ArithOperators == {"Add", "Subtract", "Multiply"}

\* "a op1 b op2 c ...": literals separated by " op "
RECURSIVE ChainText(_, _)
ChainText(operands, ops) ==
    IF Len(operands) = 1 THEN DigitsOf(operands[1])
    ELSE LET n == Len(operands)
         IN  ChainText(SubSeq(operands, 1, n - 1), SubSeq(ops, 1, n - 2))
             \o <<" ", Symbol(ops[n - 1]), " ">> \o DigitsOf(operands[n])


\* tokens separated by one space, none after "(" nor before ")"
TokenSet == {"1", "2", "+", "-", "*", "(", ")"}

RECURSIVE TokenText(_)
TokenText(tokens) ==
    IF Len(tokens) = 0 THEN <<>>
    ELSE IF Len(tokens) = 1 THEN <<tokens[1]>>
    ELSE LET n == Len(tokens)
             sep == IF tokens[n - 1] = "(" \/ tokens[n] = ")" THEN <<>> ELSE <<" ">>
         IN  TokenText(SubSeq(tokens, 1, n - 1)) \o sep \o <<tokens[n]>>


-----------------------------------------------------------------------------
(* The parser and the fast evaluator as a state machine *)

NoResult == [k |-> "NotRun"]

SimIdle ==
    /\ trials = 0 /\ owner = <<>> /\ trial_values = <<>> /\ tables = <<>>
    /\ output = NoResult

RenderIdle == rendered = <<>> /\ reparsed = NoResult

SeedIdle == seed = 0 /\ runs = <<>> /\ ambient = 0

CacheIdle == caches = <<>>

VisitIdle == roller = "none" /\ calls = <<>> /\ visited = NoResult

VerboseIdle == verbose_rolls = NoResult

SimplifyIdle == enabled_steps = {} /\ simplified = NoResult

BigIdle == mass = <<>> /\ candidate = 0 /\ rejection = 0 /\ returned = NoResult

RollIdle ==
    /\ quantity = 0 /\ power = 0 /\ augments = <<>> /\ faces = <<>>
    /\ dice = <<>> /\ step = 0 /\ before = <<>>
    /\ totals = [naive |-> NoResult, fast |-> NoResult, augmented |-> NoResult,
                 many |-> NoResult]

InitParser(inputs) ==
    /\ input \in inputs
    /\ pc = "start"
    /\ result = NoResult
    /\ value = NoResult
    /\ RollIdle
    /\ BigIdle
    /\ SimIdle
    /\ RenderIdle
    /\ SeedIdle
    /\ CacheIdle
    /\ VisitIdle
    /\ VerboseIdle
    /\ SimplifyIdle

\* parse(input)
Parse ==
    /\ pc = "start"
    /\ result' = parse(input)
    /\ pc' = "parsed"
    /\ UNCHANGED <<input, value>>
    /\ UNCHANGED rollVars
    /\ UNCHANGED bigVars
    /\ UNCHANGED simVars
    /\ UNCHANGED renderVars
    /\ UNCHANGED seedVars
    /\ UNCHANGED cacheVars
    /\ UNCHANGED visitVars
    /\ UNCHANGED verboseVars
    /\ UNCHANGED simplifyVars

\* FastRoller::roll(expr) on the parsed expression
FastRoll ==
    /\ pc = "parsed"
    /\ result.k = "Ok"
    /\ ~HasDice(result.v)
    /\ value' = FastVisit(result.v)
    /\ pc' = "done"
    /\ UNCHANGED <<input, result>>
    /\ UNCHANGED rollVars
    /\ UNCHANGED bigVars
    /\ UNCHANGED simVars
    /\ UNCHANGED renderVars
    /\ UNCHANGED seedVars
    /\ UNCHANGED cacheVars
    /\ UNCHANGED visitVars
    /\ UNCHANGED verboseVars
    /\ UNCHANGED simplifyVars

Init == InitParser(Strings(MaxLen))
Next == Parse
Spec == Init /\ [][Next]_vars

InitChain ==
    \E n \in 1..MaxOperands :
        \E operands \in [1..n -> Literals], ops \in [1..(n - 1) -> ArithOperators] :
            InitParser({ChainText(operands, ops)})
NextArith == Parse \/ FastRoll
SpecChain == InitChain /\ [][NextArith]_vars

InitTokens ==
    \E n \in 0..MaxTokens :
        \E tokens \in [1..n -> TokenSet] : InitParser({TokenText(tokens)})
SpecTokens == InitTokens /\ [][NextArith]_vars
-----------------------------------------------------------------------------
(* The random source, and the searches of the standard library *)

signum(x) == IF x > 0 THEN 1 ELSE IF x < 0 THEN -1 ELSE 0
abs(x) == IF x < 0 THEN -x ELSE x

\* Ord::cmp on integers
Cmp(a, b) == IF a < b THEN "Less" ELSE IF a = b THEN "Equal" ELSE "Greater"

RECURSIVE Sum(_)
Sum(values) == IF values = <<>> THEN 0 ELSE Head(values) + Sum(Tail(values))

\* a fold of the values with the unchecked + of integers within lo..hi
RECURSIVE UncheckedFold(_, _, _, _)
UncheckedFold(values, acc, lo, hi) ==
    IF values = <<>> THEN {Ok(acc)}
    ELSE UNION {IF s.k = "Ok" THEN UncheckedFold(Tail(values), s.v, lo, hi) ELSE {s}
                : s \in Unchecked(acc + Head(values), lo, hi)}

\* i64::abs, unchecked on the most negative value
I64Abs(x) == IF x = I64_MIN THEN {Panic, Ok(I64_MIN)} ELSE {Ok(abs(x))}

\* slice::binary_search_by on values sorted ascending, as (Ok(idx) | Err(idx)):
\* the index of a match (any of them, when several match), else the index
\* where the value can be inserted; indices count from 0
BinarySearch(values, x) ==
    LET matches == {i \in 1..Len(values) : values[i] = x}
    IN  IF matches # {} THEN {i - 1 : i \in matches}
        ELSE {Cardinality({i \in 1..Len(values) : values[i] < x})}

\* Vec::insert(idx, element)
InsertAt(vec, idx, element) ==
    SubSeq(vec, 1, idx) \o <<element>> \o SubSeq(vec, idx + 1, Len(vec))

-----------------------------------------------------------------------------
(* naive.rs: the tagged roll and its augmentations *)

TaggedDiceRoll(v, tag) == [value |-> v, tag |-> tag]

\* the flag toggled instead of inserted
toggle_discarded(d) ==
    [d EXCEPT !.tag = IF "DISCARDED" \in @ THEN @ \ {"DISCARDED"}
                      ELSE @ \cup {"DISCARDED"}]

discard(d) == [d EXCEPT !.tag = @ \cup {"DISCARDED"}]

\* roll_one with rng.gen_range(1..=power.abs()) yielding face
roll_one(face, pow) ==
    IF pow = 0 THEN TaggedDiceRoll(0, {})
    ELSE LET v == face * signum(pow)
         IN  TaggedDiceRoll(v, (IF v = 1 THEN {"FAIL"} ELSE {})
                               \cup (IF v = pow THEN {"SUCCESS"} ELSE {}))

\* roll_many, the i-th draw of the random source being fs[i]
roll_many(fs, q, pow) ==
    IF q = 0 \/ pow = 0 THEN <<>>
    ELSE [i \in 1..abs(q) |->
             LET rolled == roll_one(fs[i], pow)
             IN  [rolled EXCEPT !.value = rolled.value * signum(q)]]

\* size_of::<TaggedDiceRoll>(): a u32 of flags and an i64, aligned to 8 bytes
TaggedDiceRollSize == 16

\* Vec::with_capacity(power.abs() as usize): a negative capacity is a huge
\* usize, and a capacity of more than isize::MAX bytes panics
WithCapacity(pow) ==
    {IF a.k = "Panic" THEN Panic
     ELSE IF a.v < 0 \/ a.v * TaggedDiceRollSize > ISIZE_MAX THEN Panic
     ELSE Ok(a.v) : a \in I64Abs(pow)}

\* roll_many from its first statement: the capacity, the early return, and
\* the bound quantity.abs() of the loop (an empty range when it is negative)
RollManyOutcomes(fs, q, pow) ==
    UNION {IF capacity.k = "Panic" THEN {Panic}
           ELSE IF q = 0 \/ pow = 0 THEN {Ok(<<>>)}
           ELSE {IF n.k = "Panic" THEN Panic
                 ELSE IF n.v < 0 THEN Ok(<<>>)
                 ELSE Ok(roll_many(fs, q, pow)) : n \in I64Abs(q)}
           : capacity \in WithCapacity(pow)}

\* Selector::matches(n): the relation of the selector holds between the
\* value and the selector's n
SelectorMatches(sel, n) == Cmp(n, sel.n) = sel.relation

should_selector_discard(n, sel, op) ==
    LET matches == SelectorMatches(sel, n)
        keep == op = "Keep"
    IN  IF keep THEN ~matches ELSE matches

optional_big_uint_to_usize_or_1(n) == IF n = NoNumber THEN 1 ELSE n

\* the index vectors the insertion loop of Truncate can build: the indices
\* of all dice, ascending by value
RECURSIVE IndexOrders(_, _, _)
IndexOrders(rolled, i, orders) ==
    IF i > Len(rolled) THEN orders
    ELSE IndexOrders(rolled, i + 1,
             UNION {{InsertAt(o, idx, i) :
                        idx \in BinarySearch([j \in 1..Len(o) |-> rolled[o[j]].value],
                                             rolled[i].value)}
                    : o \in orders})

\* keep_indices: the first n indices of the (possibly reversed) vector
TruncateKeepIndices(rolled, op, affix, n) ==
    {LET ordered == IF <<op, affix>> \in {<<"Keep", "Low">>, <<"Drop", "High">>}
                    THEN o ELSE Reverse(o)
     IN  {ordered[j] : j \in 1..(IF n < Len(ordered) THEN n ELSE Len(ordered))}
     : o \in IndexOrders(rolled, 1, {<<>>})}

\* the outcomes of one round of the loop of augment
AugmentOutcomes(rolled, augment) ==
    CASE augment.aug = "Truncate" ->
            {[i \in 1..Len(rolled) |->
                 IF i \in keep THEN rolled[i] ELSE discard(rolled[i])]
             : keep \in TruncateKeepIndices(rolled, augment.kind, augment.affix,
                             optional_big_uint_to_usize_or_1(augment.n))}
      [] augment.aug = "Filter" ->
            {[i \in 1..Len(rolled) |->
                 IF should_selector_discard(rolled[i].value, augment.selector,
                                            augment.kind)
                 THEN discard(rolled[i]) ELSE rolled[i]]}
      [] augment.aug = "Emphasis" -> {rolled}
      [] augment.aug = "Explode" -> {rolled}

\* NaiveValue::total of NaiveValue::Dice: the fold adds without a check
total(rolled) ==
    UncheckedFold([i \in 1..Len(rolled) |-> rolled[i].value], 0, I64_MIN, I64_MAX)

-----------------------------------------------------------------------------
(* verbose.rs, fast.rs: the fast strategy on a dice term *)

DiceRoll(v, exploded) ==
    [value |-> v, exploded |-> exploded,
     critical_fumble |-> FALSE, critical_success |-> FALSE]

Values(rolls) == [i \in 1..Len(rolls) |-> rolls[i].value]

\* MinMax::insort
insort(out, roll) ==
    {InsertAt(out, idx, roll) : idx \in BinarySearch(Values(out), roll.value)}

\* Vec::drain(i..) and Vec::drain(..i): what is left of the vector
DrainFrom(rolls, i) == SubSeq(rolls, 1, i)
DrainTo(rolls, i) == SubSeq(rolls, i + 1, Len(rolls))

\* Keep with Less removing only the values above n
FilterRemovesAbove(kind, relation, n, x) ==
    CASE <<kind, relation>> = <<"Drop", "Less">> -> x < n
      [] <<kind, relation>> = <<"Drop", "Equal">> -> x = n
      [] <<kind, relation>> = <<"Drop", "Greater">> -> x > n
      [] <<kind, relation>> = <<"Keep", "Less">> -> x > n
      [] <<kind, relation>> = <<"Keep", "Equal">> -> x # n
      [] <<kind, relation>> = <<"Keep", "Greater">> -> x <= n

\* the predicate handed to extract_if: the rolls a Filter removes
FilterRemoves(kind, relation, n, x) ==
    CASE <<kind, relation>> = <<"Drop", "Less">> -> x < n
      [] <<kind, relation>> = <<"Drop", "Equal">> -> x = n
      [] <<kind, relation>> = <<"Drop", "Greater">> -> x > n
      [] <<kind, relation>> = <<"Keep", "Less">> -> x >= n
      [] <<kind, relation>> = <<"Keep", "Equal">> -> x # n
      [] <<kind, relation>> = <<"Keep", "Greater">> -> x <= n

RECURSIVE SelectSeq2(_, _, _, _)
SelectSeq2(rolls, kind, relation, n) ==
    IF rolls = <<>> THEN <<>>
    ELSE IF FilterRemoves(kind, relation, n, Head(rolls).value)
    THEN SelectSeq2(Tail(rolls), kind, relation, n)
    ELSE <<Head(rolls)>> \o SelectSeq2(Tail(rolls), kind, relation, n)

\* one round of the loop of apply_augments
ApplyAugment(rolls, augment) ==
    CASE augment.aug = "Truncate" ->
            IF augment.n # NoNumber /\ ~FitsI32(augment.n)
            THEN {Err("ValueTooLarge")}
            ELSE LET n == IF augment.n = NoNumber THEN 1 ELSE augment.n
                 IN  {IF i > Len(rolls) THEN Panic
                      ELSE CASE <<augment.kind, augment.affix>> = <<"Drop", "High">> ->
                                    Ok(DrainFrom(rolls, i))
                             [] <<augment.kind, augment.affix>> = <<"Drop", "Low">> ->
                                    Ok(DrainTo(rolls, i))
                             [] <<augment.kind, augment.affix>> = <<"Keep", "High">> ->
                                    Ok(DrainTo(rolls, i))
                             [] <<augment.kind, augment.affix>> = <<"Keep", "Low">> ->
                                    Ok(DrainFrom(rolls, i))
                      : i \in {idx + 1 : idx \in BinarySearch(Values(rolls), n)}}
      [] augment.aug = "Filter" ->
            IF ~FitsI32(augment.selector.n) THEN {Err("ValueTooLarge")}
            ELSE {Ok(SelectSeq2(rolls, augment.kind, augment.selector.relation,
                                augment.selector.n))}
      [] augment.aug = "Emphasis" -> {Panic}
      [] augment.aug = "Explode" -> {Ok(rolls)}

RECURSIVE apply_augments(_, _)
apply_augments(rolls, augs) ==
    IF augs = <<>> THEN {Ok(rolls)}
    ELSE UNION {IF r.k = "Ok" THEN apply_augments(r.v, Tail(augs)) ELSE {r}
                : r \in ApplyAugment(rolls, Head(augs))}

\* explode_conditions: the selectors of the Explode augmentations
RECURSIVE ExplodeConditions(_)
ExplodeConditions(augs) ==
    IF augs = <<>> THEN <<>>
    ELSE IF Head(augs).aug = "Explode"
    THEN <<Head(augs).selector>> \o ExplodeConditions(Tail(augs))
    ELSE ExplodeConditions(Tail(augs))

\* the check made before any roll, product being count * power as computed
AlwaysExplodes(conditions, count, product) ==
    \E i \in 1..Len(conditions) :
        /\ conditions[i].sel = "Some"
        /\ Cmp(count, conditions[i].n) = conditions[i].relation
        /\ Cmp(product, conditions[i].n) = conditions[i].relation

check_explosion(conditions, n, pow) ==
    /\ conditions # <<>>
    /\ \E i \in 1..Len(conditions) :
           IF conditions[i].sel = "Some"
           THEN Cmp(n, conditions[i].n) = conditions[i].relation
           ELSE n = pow

OutOfFaces == [k |-> "OutOfFaces"]

\* while i < count: i rolls made, the next draw of the random source being
\* fs[i + 1]; the model stops where the drawn faces end
RECURSIVE RollLoop(_, _, _, _, _, _)
RollLoop(i, count, out, pow, conditions, fs) ==
    IF ~(i < count) THEN {Ok(out)}
    ELSE IF i + 1 > Len(fs) THEN {OutOfFaces}
    ELSE LET v == fs[i + 1]
             exploded == check_explosion(conditions, v, pow)
         IN  IF ~FitsI32(v) THEN {Err("Overflow")}
             ELSE UNION {RollLoop(i + 1, IF exploded THEN count + 1 ELSE count,
                                  o, pow, conditions, fs)
                         : o \in insort(out, DiceRoll(v, exploded))}

\* count * power is an unchecked product of u32, computed for the first
\* condition that carries a selector
verbose_roll(fs, count, pow, augs) ==
    LET conditions == ExplodeConditions(augs)
        Decided(product) ==
            IF product.k = "Panic" THEN {Panic}
            ELSE IF AlwaysExplodes(conditions, count, product.v)
            THEN {Err("InfiniteExplosion")}
            ELSE UNION {IF r.k = "Ok" THEN apply_augments(r.v, augs) ELSE {r}
                        : r \in RollLoop(0, count, <<>>, pow, conditions, fs)}
    IN  IF \E i \in 1..Len(conditions) : conditions[i].sel = "Some"
        THEN UNION {Decided(product) : product \in Unchecked(count * pow, 0, U32_MAX)}
        ELSE Decided(Ok(count * pow))

\* the checked sum of the rolls of a term without augmentations
RECURSIVE CheckedSum(_, _, _)
CheckedSum(fs, count, sum) ==
    IF count = 0 THEN Ok(sum)
    ELSE IF ~FitsI32(Head(fs)) THEN Err("ValueTooLarge")
    ELSE IF ~FitsI32(sum + Head(fs)) THEN Err("Overflow")
    ELSE CheckedSum(Tail(fs), count - 1, sum + Head(fs))

\* FastRoller::visit_dice on an evaluated count and power (unsigned_abs has
\* no overflow); the sum of the collapsed rolls of an augmented term is an
\* unchecked Iterator::sum
FastVisitDice(fs, count, pow, augs) ==
    LET sign_1 == signum(count)
        sign_2 == signum(pow)
        c == abs(count)
        p == abs(pow)
        WithSign(sum) ==
            IF sum.k = "Ok" THEN Checked(sum.v * (sign_1 * sign_2)) ELSE sum
    IN  IF c = 0 \/ p = 0 THEN {Ok(0)}
        ELSE IF augs = <<>>
        THEN {WithSign(CheckedSum(fs, c, 0))}
        ELSE UNION {IF r.k = "Ok"
                    THEN {WithSign(sum)
                          : sum \in UncheckedFold(Values(r.v), 0, I32_MIN, I32_MAX)}
                    ELSE {r}
                    : r \in verbose_roll(fs, c, p, augs)}

-----------------------------------------------------------------------------
(* roll.rs: augmented_roll, the rolls kept in the order they were made *)

\* the loop of fast_roll_many: the random source draws from 1..=power.abs(),
\* an empty range when power is the most negative value
RECURSIVE FastRollLoop(_, _, _, _)
FastRollLoop(fs, n, pow, sum) ==
    IF n = 0 THEN {Ok(sum)}
    ELSE UNION {IF p.k = "Panic" \/ p.v < 1 THEN {Panic}
                ELSE IF ~FitsI64(sum + Head(fs)) THEN {Err("Overflow")}
                ELSE FastRollLoop(Tail(fs), n - 1, pow, sum + Head(fs))
                : p \in I64Abs(pow)}

fast_roll_many(fs, q, pow) ==
    IF q = 0 \/ pow = 0 THEN {Ok(0)}
    ELSE UNION {IF n.k = "Panic" THEN {Panic}
                ELSE {IF sum.k = "Ok" THEN Ok(sum.v * (signum(q) * signum(pow)))
                      ELSE sum
                      : sum \in FastRollLoop(fs, IF n.v < 0 THEN 0 ELSE n.v, pow, 0)}
                : n \in I64Abs(q)}

IsSorted(values) == \A i \in 1..(Len(values) - 1) : values[i] <= values[i + 1]

\* slice::binary_search_by on a slice that need not be sorted: on an unsorted
\* slice the index returned is unspecified, any index from 0 to the length
SearchUnsorted(values, x) ==
    IF IsSorted(values) THEN BinarySearch(values, x) ELSE 0..Len(values)

\* one round of the loop of roll.rs apply_augments
RollApplyAugment(rolls, augment) ==
    CASE augment.aug = "Truncate" ->
            LET n == IF augment.n = NoNumber THEN 1 ELSE augment.n
            IN  {IF i > Len(rolls) THEN Panic
                 ELSE IF <<augment.kind, augment.affix>>
                             \in {<<"Drop", "High">>, <<"Keep", "Low">>}
                 THEN Ok(DrainFrom(rolls, i))
                 ELSE Ok(DrainTo(rolls, i))
                 : i \in {idx + 1 : idx \in SearchUnsorted(Values(rolls), n)}}
      [] augment.aug = "Filter" ->
            {Ok(SelectSeq2(rolls, augment.kind, augment.selector.relation,
                           augment.selector.n))}
      [] augment.aug = "Emphasis" -> {Panic}
      [] augment.aug = "Explode" -> {Panic}

RECURSIVE roll_apply_augments(_, _)
roll_apply_augments(rolls, augs) ==
    IF augs = <<>> THEN {Ok(rolls)}
    ELSE UNION {IF r.k = "Ok" THEN roll_apply_augments(r.v, Tail(augs)) ELSE {r}
                : r \in RollApplyAugment(rolls, Head(augs))}

\* augmented_roll for a quantity and power of at least 1, the i-th draw of
\* the random source being fs[i]
augmented_roll(fs, q, pow, augs) ==
    roll_apply_augments([i \in 1..q |-> DiceRoll(fs[i], FALSE)], augs)

-----------------------------------------------------------------------------
(* visitor.rs, naive.rs: NaiveRoller over an expression without dice terms *)

\* try_from_big_int::<T> for an integer type T of lo..hi
try_from_big_int(c, lo, hi) ==
    IF lo <= c /\ c <= hi THEN Ok(c) ELSE Err("ValueTooLarge")

\* i64::try_from(c).unwrap()
NaiveVisitConstant(c) == IF FitsI64(c) THEN Ok(c) ELSE Panic

\* i64::checked_add / checked_sub / checked_mul followed by ok_or(Overflow)
Checked64(n) == IF FitsI64(n) THEN Ok(n) ELSE Err("Overflow")

NaiveVisitBinop(op, lhs, rhs) ==
    IF lhs.k # "Ok" THEN lhs
    ELSE IF rhs.k # "Ok" THEN rhs
    ELSE CASE op = "Equals" -> Ok(BoolToInt(lhs.v = rhs.v))
           [] op = "LessThan" -> Ok(BoolToInt(lhs.v < rhs.v))
           [] op = "GreaterThan" -> Ok(BoolToInt(lhs.v > rhs.v))
           [] op = "Add" -> Checked64(lhs.v + rhs.v)
           [] op = "Subtract" -> Checked64(lhs.v - rhs.v)
           [] op = "Multiply" -> Checked64(lhs.v * rhs.v)
           [] op = "Chain" -> rhs

\* value.map(|value| Constant(-value.total())): the negation has no check
NaiveVisitNegation(val) ==
    IF val.k # "Ok" THEN {val} ELSE Unchecked(-val.v, I64_MIN, I64_MAX)

\* Visitor::visit; a panic in an operand ends the evaluation
RECURSIVE NaiveVisit(_)
NaiveVisit(expr) ==
    CASE expr.kind = "Binop" ->
            UNION {IF lhs.k = "Panic" THEN {Panic}
                   ELSE {IF rhs.k = "Panic" THEN Panic
                         ELSE NaiveVisitBinop(expr.operator, lhs, rhs)
                         : rhs \in NaiveVisit(expr.rhs)}
                   : lhs \in NaiveVisit(expr.lhs)}
      [] expr.kind = "Constant" -> {NaiveVisitConstant(expr.c)}
      [] expr.kind = "Subexpression" -> NaiveVisit(expr.e)
      [] expr.kind = "Annotated" -> NaiveVisit(expr.e)
      [] expr.kind = "UnaryNegation" ->
            IF expr.e.kind = "UnaryNegation" THEN NaiveVisit(expr.e.e)
            ELSE UNION {IF val.k = "Panic" THEN {Panic} ELSE NaiveVisitNegation(val)
                        : val \in NaiveVisit(expr.e)}

-----------------------------------------------------------------------------
(* Rolling one dice term as a state machine *)

Numbers == 1..MaxNumber
OptionalNumbers == Numbers \cup {NoNumber}
Kinds == {"Keep", "Drop"}
Relations == {"Less", "Equal", "Greater"}

Augmentations ==
    {Truncate(kind, affix, n) : kind \in Kinds, affix \in {"High", "Low"},
                                n \in OptionalNumbers}
    \cup {Filter(kind, Selector(relation, n)) : kind \in Kinds,
                                                relation \in Relations, n \in Numbers}
    \cup {Emphasis(NoNumber)}
    \cup {Explode(NoSelector)}
    \cup {Explode(Selector(relation, n)) : relation \in Relations, n \in Numbers}

ListsOf(augmentations, longest) ==
    UNION {[1..n -> augmentations] : n \in 0..longest}

HasExplode(augs) == \E i \in 1..Len(augs) : augs[i].aug = "Explode"

ParserIdle == input = <<>> /\ result = NoResult /\ value = NoResult

InitRollOf(augmentations, longest) ==
    /\ ParserIdle
    /\ BigIdle
    /\ SimIdle
    /\ RenderIdle
    /\ SeedIdle
    /\ CacheIdle
    /\ VisitIdle
    /\ VerboseIdle
    /\ SimplifyIdle
    /\ pc = "start"
    /\ quantity \in 1..MaxQuantity
    /\ power \in 1..MaxPower
    /\ augments \in ListsOf(augmentations, longest)
    /\ faces \in [1..(quantity + IF HasExplode(augments) THEN MaxExplosions ELSE 0)
                  -> 1..power]
    /\ dice = <<>>
    /\ step = 0
    /\ before = <<>>
    /\ totals = [naive |-> NoResult, fast |-> NoResult, augmented |-> NoResult,
                 many |-> NoResult]

InitRoll == InitRollOf(Augmentations, MaxAugments)

\* NaiveRoller::visit_dice: the rolls
RollMany ==
    /\ pc = "start"
    /\ \E rolled \in RollManyOutcomes(faces, quantity, power) :
           IF rolled.k = "Ok"
           THEN dice' = rolled.v /\ pc' = "rolled" /\ UNCHANGED totals
           ELSE /\ totals' = [totals EXCEPT !.naive = rolled]
                /\ pc' = "totalled"
                /\ UNCHANGED dice
    /\ UNCHANGED <<quantity, power, augments, faces, step, before>>
    /\ UNCHANGED parserVars
    /\ UNCHANGED bigVars
    /\ UNCHANGED simVars
    /\ UNCHANGED renderVars
    /\ UNCHANGED seedVars
    /\ UNCHANGED cacheVars
    /\ UNCHANGED visitVars
    /\ UNCHANGED verboseVars
    /\ UNCHANGED simplifyVars

\* augment: one round of its loop over the augmentations
Augment ==
    /\ pc = "rolled"
    /\ step < Len(augments)
    /\ \E augmented \in AugmentOutcomes(dice, augments[step + 1]) :
           dice' = augmented
    /\ before' = dice
    /\ step' = step + 1
    /\ UNCHANGED <<pc, quantity, power, augments, faces, totals>>
    /\ UNCHANGED parserVars
    /\ UNCHANGED bigVars
    /\ UNCHANGED simVars
    /\ UNCHANGED renderVars
    /\ UNCHANGED seedVars
    /\ UNCHANGED cacheVars
    /\ UNCHANGED visitVars
    /\ UNCHANGED verboseVars
    /\ UNCHANGED simplifyVars

\* NaiveValue::total of the term
Total ==
    /\ pc = "rolled"
    /\ step = Len(augments)
    /\ \E sum \in total(dice) : totals' = [totals EXCEPT !.naive = sum]
    /\ pc' = "totalled"
    /\ UNCHANGED <<quantity, power, augments, faces, dice, step, before>>
    /\ UNCHANGED parserVars
    /\ UNCHANGED bigVars
    /\ UNCHANGED simVars
    /\ UNCHANGED renderVars
    /\ UNCHANGED seedVars
    /\ UNCHANGED cacheVars
    /\ UNCHANGED visitVars
    /\ UNCHANGED verboseVars
    /\ UNCHANGED simplifyVars

\* FastRoller::visit_dice of the same term on the same random source
\* the count and the power reach visit_dice through visit_constant
FastDice ==
    /\ pc = "totalled"
    /\ \E sum \in IF FastVisitConstant(quantity).k # "Ok"
                  THEN {FastVisitConstant(quantity)}
                  ELSE IF FastVisitConstant(power).k # "Ok"
                  THEN {FastVisitConstant(power)}
                  ELSE FastVisitDice(faces, quantity, power, augments) :
           /\ sum # OutOfFaces
           /\ totals' = [totals EXCEPT !.fast = sum]
    /\ pc' = "done"
    /\ UNCHANGED <<quantity, power, augments, faces, dice, step, before>>
    /\ UNCHANGED parserVars
    /\ UNCHANGED bigVars
    /\ UNCHANGED simVars
    /\ UNCHANGED renderVars
    /\ UNCHANGED seedVars
    /\ UNCHANGED cacheVars
    /\ UNCHANGED visitVars
    /\ UNCHANGED verboseVars
    /\ UNCHANGED simplifyVars

\* augmented_roll of the same term on the same random source
AugmentedRoll ==
    /\ pc = "done"
    /\ \E rolls \in augmented_roll(faces, quantity, power, augments) :
           totals' = [totals EXCEPT !.augmented = rolls]
    /\ pc' = "end"
    /\ UNCHANGED <<quantity, power, augments, faces, dice, step, before>>
    /\ UNCHANGED parserVars
    /\ UNCHANGED bigVars
    /\ UNCHANGED simVars
    /\ UNCHANGED renderVars
    /\ UNCHANGED seedVars
    /\ UNCHANGED cacheVars
    /\ UNCHANGED visitVars
    /\ UNCHANGED verboseVars
    /\ UNCHANGED simplifyVars

Filters ==
    {Filter(kind, Selector(relation, n)) : kind \in Kinds, relation \in Relations,
                                           n \in Numbers}

InitFilter == InitRollOf(Filters, MaxFilters)

\* fast_roll_many of the same term on the same random source
FastRollMany ==
    /\ pc = "done"
    /\ \E sum \in fast_roll_many(faces, quantity, power) :
           totals' = [totals EXCEPT !.many = sum]
    /\ pc' = "end"
    /\ UNCHANGED <<quantity, power, augments, faces, dice, step, before>>
    /\ UNCHANGED parserVars
    /\ UNCHANGED bigVars
    /\ UNCHANGED simVars
    /\ UNCHANGED renderVars
    /\ UNCHANGED seedVars
    /\ UNCHANGED cacheVars
    /\ UNCHANGED visitVars
    /\ UNCHANGED verboseVars
    /\ UNCHANGED simplifyVars

\* size_of::<TaggedDiceRoll>() + 1 dice of the largest power that passes
\* Vec::with_capacity add up to more than i64::MAX
ManyDice == TaggedDiceRollSize + 1

Quantities ==
    {I64_MIN, -ManyDice, ManyDice} \cup (-MaxQuantity..MaxQuantity)

Powers ==
    {I64_MIN, I64_MIN + 1, I32_MIN, -2, -1, 0, 1, 2, I32_MAX,
     ISIZE_MAX \div TaggedDiceRollSize, I64_MAX}

\* the dice of a term all show the face 1, or all the largest face
InitWidth ==
    /\ ParserIdle
    /\ BigIdle
    /\ SimIdle
    /\ RenderIdle
    /\ SeedIdle
    /\ CacheIdle
    /\ VisitIdle
    /\ VerboseIdle
    /\ SimplifyIdle
    /\ pc = "start"
    /\ quantity \in Quantities
    /\ power \in Powers
    /\ augments \in ListsOf(Filters, MaxFilters)
    /\ \E face \in {1, abs(power)} :
           faces = [i \in 1..(IF quantity = I64_MIN THEN 0 ELSE abs(quantity))
                    |-> face]
    /\ dice = <<>>
    /\ step = 0
    /\ before = <<>>
    /\ totals = [naive |-> NoResult, fast |-> NoResult, augmented |-> NoResult,
                 many |-> NoResult]

\* NaiveRoller::roll(expr) on the expression the fast strategy evaluated
NaiveRoll ==
    /\ pc = "done"
    /\ result.k = "Ok"
    /\ ~HasDice(result.v)
    /\ \E outcome \in NaiveVisit(result.v) :
           totals' = [totals EXCEPT !.naive = outcome]
    /\ pc' = "end"
    /\ UNCHANGED <<quantity, power, augments, faces, dice, step, before>>
    /\ UNCHANGED parserVars
    /\ UNCHANGED bigVars
    /\ UNCHANGED simVars
    /\ UNCHANGED renderVars
    /\ UNCHANGED seedVars
    /\ UNCHANGED cacheVars
    /\ UNCHANGED visitVars
    /\ UNCHANGED verboseVars
    /\ UNCHANGED simplifyVars

\* the values around the ends of both widths, and around zero
Operands ==
    {I64_MIN - 1, I64_MIN, I64_MIN + 1, I32_MIN - 1, I32_MIN, I32_MIN + 1,
     -2, -1, 0, 1, 2,
     I32_MAX - 1, I32_MAX, I32_MAX + 1, I64_MAX - 1, I64_MAX, I64_MAX + 1}

Operators ==
    {"Equals", "LessThan", "GreaterThan", "Add", "Subtract", "Multiply"}

\* an expression of constants (Integer is a signed big integer), handed to
\* the strategies as parse would hand it
InitVisit ==
    /\ input = <<>>
    /\ pc = "parsed"
    /\ \E a \in Operands, b \in Operands, op \in Operators :
           result \in {Ok(Constant(a)), Ok(UnaryNegation(Constant(a))),
                       Ok(Binop(op, Constant(a), Constant(b)))}
    /\ value = NoResult
    /\ RollIdle
    /\ BigIdle
    /\ SimIdle
    /\ RenderIdle
    /\ SeedIdle
    /\ CacheIdle
    /\ VisitIdle
    /\ VerboseIdle
    /\ SimplifyIdle

NextVisit == FastRoll \/ NaiveRoll
SpecVisit == InitVisit /\ [][NextVisit]_vars

NextWidth == RollMany \/ Augment \/ Total \/ FastDice \/ FastRollMany
SpecWidth == InitWidth /\ [][NextWidth]_vars

NextRoll == RollMany \/ Augment \/ Total \/ FastDice \/ AugmentedRoll
SpecRoll == InitRoll /\ [][NextRoll]_vars
SpecFilter == InitFilter /\ [][NextRoll]_vars

-----------------------------------------------------------------------------
(* big.rs: the exact distribution of a dice term and its sampling *)

\* vec![x; n]
Repeat(x, n) == [i \in 1..n |-> x]

\* the two loops of convolve, pair number n of the Len(a) * Len(b) pairs
\* (i, j) adding a[i] * b[j] to convolved[i + j]; indices count from 0
RECURSIVE ConvolveLoop(_, _, _, _)
ConvolveLoop(a, b, n, convolved) ==
    IF n = Len(a) * Len(b) THEN convolved
    ELSE LET i == n \div Len(b)
             j == n % Len(b)
         IN  ConvolveLoop(a, b, n + 1,
                          [convolved EXCEPT ![i + j + 1] = @ + a[i + 1] * b[j + 1]])

convolve(a, b) == ConvolveLoop(a, b, 0, Repeat(0, Len(a) + Len(b) - 1))

\* for _ in 0..n { convolved = convolve(convolved, vec![1; power]) }
RECURSIVE MulticonvolveLoop(_, _, _)
MulticonvolveLoop(n, convolved, pow) ==
    IF n = 0 THEN convolved
    ELSE MulticonvolveLoop(n - 1, convolve(convolved, Repeat(1, pow)), pow)

\* the loop run once for every die, the first included
multiconvolve_per_die(count, pow) == MulticonvolveLoop(count, Repeat(1, pow), pow)

multiconvolve(count, pow) == MulticonvolveLoop(count - 1, Repeat(1, pow), pow)

\* max_convolved on the memoised z = multiconvolve(count, power):
\* z[z.len() / 2]
max_convolved(z) == z[(Len(z) \div 2) + 1]

\* nth on the memoised z = multiconvolve(count, power): z[nth - 1], a panic
\* outside the vector
nth(z, n) == IF n - 1 < 0 \/ n - 1 >= Len(z) THEN Panic ELSE Ok(z[(n - 1) + 1])

\* multiconvolve(count, power), as max_convolved and nth call it first; the
\* memoize attribute keeps the vector for the later calls
Multiconvolve ==
    /\ pc = "start"
    /\ mass' = multiconvolve(quantity, power)
    /\ pc' = "convolved"
    /\ UNCHANGED <<candidate, rejection, returned>>
    /\ UNCHANGED parserVars
    /\ UNCHANGED rollVars
    /\ UNCHANGED simVars
    /\ UNCHANGED renderVars
    /\ UNCHANGED seedVars
    /\ UNCHANGED cacheVars
    /\ UNCHANGED visitVars
    /\ UNCHANGED verboseVars
    /\ UNCHANGED simplifyVars

\* one round of the loop of ziggurat: gen_biguint_range(lb, rb) draws from
\* lb..(rb - 1)
Ziggurat ==
    /\ pc = "convolved"
    /\ \E drawn_u \in quantity..((quantity * power + 1) - 1),
          drawn_v \in 1..((max_convolved(mass) + 1) - 1) :
           /\ candidate' = drawn_u
           /\ rejection' = drawn_v
           /\ LET n == nth(mass, drawn_u)
              IN  IF n.k = "Panic"
                  THEN pc' = "panicked" /\ UNCHANGED returned
                  ELSE IF drawn_v <= n.v
                  THEN pc' = "returned" /\ returned' = Ok(drawn_u)
                  ELSE pc' = "rejected" /\ UNCHANGED returned
    /\ UNCHANGED mass
    /\ UNCHANGED parserVars
    /\ UNCHANGED rollVars
    /\ UNCHANGED simVars
    /\ UNCHANGED renderVars
    /\ UNCHANGED seedVars
    /\ UNCHANGED cacheVars
    /\ UNCHANGED visitVars
    /\ UNCHANGED verboseVars
    /\ UNCHANGED simplifyVars

\* the loop of ziggurat back at its head, the rejected draws dropped
Retry ==
    /\ pc = "rejected"
    /\ pc' = "convolved"
    /\ candidate' = 0
    /\ rejection' = 0
    /\ UNCHANGED <<mass, returned>>
    /\ UNCHANGED parserVars
    /\ UNCHANGED rollVars
    /\ UNCHANGED simVars
    /\ UNCHANGED renderVars
    /\ UNCHANGED seedVars
    /\ UNCHANGED cacheVars
    /\ UNCHANGED visitVars
    /\ UNCHANGED verboseVars
    /\ UNCHANGED simplifyVars

\* BigRoller::visit_dice on the magnitudes of a count and a power
InitBig ==
    /\ ParserIdle
    /\ pc = "start"
    /\ quantity \in 1..MaxCount
    /\ power \in 1..MaxFaces
    /\ augments = <<>> /\ faces = <<>> /\ dice = <<>> /\ step = 0 /\ before = <<>>
    /\ BigIdle
    /\ SimIdle
    /\ RenderIdle
    /\ SeedIdle
    /\ CacheIdle
    /\ VisitIdle
    /\ VerboseIdle
    /\ SimplifyIdle
    /\ totals = [naive |-> NoResult, fast |-> NoResult, augmented |-> NoResult,
                 many |-> NoResult]

NextBig == Multiconvolve \/ Ziggurat \/ Retry
SpecBig == InitBig /\ [][NextBig]_vars

-----------------------------------------------------------------------------
(* simulate.rs: the frequency table of a simulation *)

\* HashMap::new()
EmptyTable == [k \in {} |-> 0]

\* the closure of fold_with: *values.entry(n).or_insert_with(|| 0) += 1
CountTrial(values, n) ==
    [k \in DOMAIN values \cup {n} |->
        (IF k \in DOMAIN values THEN values[k] ELSE 0) + (IF k = n THEN 1 ELSE 0)]

\* the count of b replacing that of a
ReduceOverwriting(a, b) ==
    [k \in DOMAIN a \cup DOMAIN b |-> IF k \in DOMAIN b THEN b[k] ELSE a[k]]

\* the closure of reduce_with: for (k, u) in b { *a.entry(k).or_insert(0) += u }
ReduceTables(a, b) ==
    [k \in DOMAIN a \cup DOMAIN b |->
        (IF k \in DOMAIN a THEN a[k] ELSE 0) + (IF k \in DOMAIN b THEN b[k] ELSE 0)]

\* HashMap::into_iter().collect(): the pairs in any order
IntoIter(values) ==
    {vec \in [1..Cardinality(DOMAIN values) -> {<<k, values[k]>> : k \in DOMAIN values}] :
        \A i, j \in DOMAIN vec : i # j => vec[i] # vec[j]}

\* the vector left as collected
unsorted(vec) == vec

RECURSIVE InsertByKey(_, _)
InsertByKey(sorted, pair) ==
    IF sorted = <<>> THEN <<pair>>
    ELSE IF pair[1] < Head(sorted)[1] THEN <<pair>> \o sorted
    ELSE <<Head(sorted)>> \o InsertByKey(Tail(sorted), pair)

RECURSIVE SortFrom(_, _)
SortFrom(vec, sorted) ==
    IF vec = <<>> THEN sorted ELSE SortFrom(Tail(vec), InsertByKey(sorted, Head(vec)))

\* values.sort_unstable_by_key(|(a, _)| *a)
sort_unstable_by_key(vec) == SortFrom(vec, <<>>)

\* what StandardFastRoller::default().roll(expr) can return for the expression
TrialOutcomes == {Ok(n) : n \in 1..MaxOutcome} \cup {Err("Overflow")}

\* the trials a worker has still to fold
Unfolded(worker) ==
    {t \in 1..trials : owner[t] = worker /\ trial_values[t] = NoResult}

\* one trial of a worker: a roller of its own rolls the expression, unwrap
\* panics on an error, and the worker's table counts the value
Trial(worker) ==
    /\ pc = "start"
    /\ worker \in DOMAIN tables
    /\ Unfolded(worker) # {}
    /\ LET t == CHOOSE t \in Unfolded(worker) : \A other \in Unfolded(worker) : t <= other
       IN  \E rolled \in TrialOutcomes :
               /\ trial_values' = [trial_values EXCEPT ![t] = rolled]
               /\ IF rolled.k = "Ok"
                  THEN /\ tables' = [tables EXCEPT ![worker] = CountTrial(@, rolled.v)]
                       /\ UNCHANGED pc
                  ELSE pc' = "panicked" /\ UNCHANGED tables
    /\ UNCHANGED <<trials, owner, output>>
    /\ UNCHANGED parserVars
    /\ UNCHANGED rollVars
    /\ UNCHANGED bigVars
    /\ UNCHANGED renderVars
    /\ UNCHANGED seedVars
    /\ UNCHANGED cacheVars
    /\ UNCHANGED visitVars
    /\ UNCHANGED verboseVars
    /\ UNCHANGED simplifyVars

\* reduce_with on the finished tables of two workers
Reduce(a, b) ==
    /\ pc = "start"
    /\ a \in DOMAIN tables /\ b \in DOMAIN tables /\ a # b
    /\ Unfolded(a) = {} /\ Unfolded(b) = {}
    /\ tables' = [w \in DOMAIN tables \ {b} |->
                     IF w = a THEN ReduceTables(tables[a], tables[b]) ELSE tables[w]]
    /\ UNCHANGED <<pc, trials, owner, trial_values, output>>
    /\ UNCHANGED parserVars
    /\ UNCHANGED rollVars
    /\ UNCHANGED bigVars
    /\ UNCHANGED renderVars
    /\ UNCHANGED seedVars
    /\ UNCHANGED cacheVars
    /\ UNCHANGED visitVars
    /\ UNCHANGED verboseVars
    /\ UNCHANGED simplifyVars

\* unwrap_or_default, the collected vector and its sort
Collect ==
    /\ pc = "start"
    /\ \A t \in 1..trials : trial_values[t] # NoResult
    /\ Cardinality(DOMAIN tables) <= 1
    /\ LET values == IF DOMAIN tables = {} THEN EmptyTable
                     ELSE tables[CHOOSE w \in DOMAIN tables : TRUE]
       IN  \E vec \in IntoIter(values) : output' = Ok(sort_unstable_by_key(vec))
    /\ pc' = "returned"
    /\ UNCHANGED <<trials, owner, trial_values, tables>>
    /\ UNCHANGED parserVars
    /\ UNCHANGED rollVars
    /\ UNCHANGED bigVars
    /\ UNCHANGED renderVars
    /\ UNCHANGED seedVars
    /\ UNCHANGED cacheVars
    /\ UNCHANGED visitVars
    /\ UNCHANGED verboseVars
    /\ UNCHANGED simplifyVars

\* the trials split among the workers; no trial, no worker at all
InitSimulate ==
    /\ ParserIdle
    /\ RollIdle
    /\ BigIdle
    /\ RenderIdle
    /\ SeedIdle
    /\ CacheIdle
    /\ VisitIdle
    /\ VerboseIdle
    /\ SimplifyIdle
    /\ pc = "start"
    /\ trials \in 0..MaxTrials
    /\ \E workers \in 0..MaxWorkers :
           /\ owner \in [1..trials -> 1..workers]
           /\ tables = [w \in 1..workers |-> EmptyTable]
    /\ trial_values = [t \in 1..trials |-> NoResult]
    /\ output = NoResult

NextSimulate ==
    \/ \E worker \in 1..MaxWorkers : Trial(worker)
    \/ \E a \in 1..MaxWorkers, b \in 1..MaxWorkers : Reduce(a, b)
    \/ Collect
SpecSimulate == InitSimulate /\ [][NextSimulate]_vars

-----------------------------------------------------------------------------
(* syntax.rs: Display for Expression *)

\* From<BinaryOperator> for u8, the order of syntax::BinaryOperator
Rank(op) ==
    CASE op = "Multiply" -> 3
      [] op \in {"Add", "Subtract"} -> 2
      [] op \in {"Equals", "LessThan", "GreaterThan"} -> 1
      [] op = "Chain" -> 0

is_trivial(expr) == expr.kind \in {"Constant", "Dice", "Subexpression"}

OperatorChar(op) ==
    CASE op = "Equals" -> "=" [] op = "LessThan" -> "<" [] op = "GreaterThan" -> ">"
      [] op = "Add" -> "+" [] op = "Subtract" -> "-" [] op = "Multiply" -> "*"
      [] op = "Chain" -> ","

\* an operand of a Binop is written in parentheses when it is a group around
\* an operator of a lower rank, or when it is not trivial
Parenthesised(operator, side) ==
    \/ /\ side.kind = "Subexpression"
       /\ side.e.kind = "Binop"
       /\ Rank(side.e.operator) < Rank(operator)
    \/ ~is_trivial(side)

\* Display::fmt; a dice term with augmentations is todo!() and not rendered
RECURSIVE fmt(_)
fmt(expr) ==
    CASE expr.kind = "Dice" ->
            (IF expr.count = Absent THEN <<>>
             ELSE IF is_trivial(expr.count) THEN fmt(expr.count)
             ELSE <<"(">> \o fmt(expr.count) \o <<")">>)
            \o <<"d">>
            \o (IF expr.power = Absent THEN <<>> ELSE fmt(expr.power))
      [] expr.kind = "Binop" ->
            (IF Parenthesised(expr.operator, expr.lhs)
             THEN <<"(">> \o fmt(expr.lhs) \o <<")", " ">>
             ELSE fmt(expr.lhs) \o <<" ">>)
            \o <<OperatorChar(expr.operator)>>
            \o (IF Parenthesised(expr.operator, expr.rhs)
                THEN <<" ", "(">> \o fmt(expr.rhs) \o <<")">>
                ELSE <<" ">> \o fmt(expr.rhs))
      [] expr.kind = "Constant" -> DigitsOf(expr.c)
      [] expr.kind = "Annotated" ->
            fmt(expr.e) \o <<" ", "[">> \o expr.annotation \o <<"]">>
      [] expr.kind = "Subexpression" -> fmt(expr.e)
      [] expr.kind = "UnaryNegation" -> <<"-">> \o fmt(expr.e)

RECURSIVE HasAugmentations(_)
HasAugmentations(expr) ==
    CASE expr.kind = "Binop" -> HasAugmentations(expr.lhs) \/ HasAugmentations(expr.rhs)
      [] expr.kind = "Constant" -> FALSE
      [] expr.kind \in {"Subexpression", "UnaryNegation"} -> HasAugmentations(expr.e)
      [] expr.kind = "Dice" ->
            \/ expr.augmentations # <<>>
            \/ expr.count # Absent /\ HasAugmentations(expr.count)
            \/ expr.power # Absent /\ HasAugmentations(expr.power)

\* format!("{}", expr) of the parsed expression
Render ==
    /\ pc = "parsed"
    /\ result.k = "Ok"
    /\ IF HasAugmentations(result.v)
       THEN pc' = "panicked" /\ UNCHANGED rendered
       ELSE pc' = "rendered" /\ rendered' = fmt(result.v)
    /\ UNCHANGED reparsed
    /\ UNCHANGED parserVars
    /\ UNCHANGED rollVars
    /\ UNCHANGED bigVars
    /\ UNCHANGED simVars
    /\ UNCHANGED seedVars
    /\ UNCHANGED cacheVars
    /\ UNCHANGED visitVars
    /\ UNCHANGED verboseVars
    /\ UNCHANGED simplifyVars

\* parse of the rendered text
Reparse ==
    /\ pc = "rendered"
    /\ reparsed' = parse(rendered)
    /\ pc' = "reparsed"
    /\ UNCHANGED rendered
    /\ UNCHANGED parserVars
    /\ UNCHANGED rollVars
    /\ UNCHANGED bigVars
    /\ UNCHANGED simVars
    /\ UNCHANGED seedVars
    /\ UNCHANGED cacheVars
    /\ UNCHANGED visitVars
    /\ UNCHANGED verboseVars
    /\ UNCHANGED simplifyVars

\* the canonical texts: literals, groups of one operator, an operator with a
\* group on either side, negated literals and groups, and dice terms with a
\* literal or a group as their quantity
LiteralTexts == {DigitsOf(n) : n \in Literals}
InfixText(lhs, op, rhs) == lhs \o <<" ", Symbol(op), " ">> \o rhs
GroupTexts ==
    {<<"(">> \o InfixText(a, op, b) \o <<")">>
     : a \in LiteralTexts, op \in ArithOperators, b \in LiteralTexts}
OperandTexts == LiteralTexts \cup GroupTexts
CanonicalTexts ==
    LiteralTexts
    \cup {InfixText(a, op, b) : a \in LiteralTexts, op \in ArithOperators,
                                 b \in OperandTexts}
    \cup {InfixText(a, op, b) : a \in GroupTexts, op \in ArithOperators,
                                 b \in LiteralTexts}
    \cup {<<"-">> \o a : a \in OperandTexts}
    \cup {a \o <<"d">> \o b : a \in OperandTexts, b \in LiteralTexts}
    \cup {<<"d">> \o b : b \in LiteralTexts}

InitRender == InitParser(CanonicalTexts)
NextRender == Parse \/ Render \/ Reparse
SpecRender == InitRender /\ [][NextRender]_vars

(* fast.rs, naive.rs, big.rs: where each strategy takes its random values *)

\* StdRng::seed_from_u64: the state of the generator is a function of the seed
seed_from_u64(state) == (state * 7 + 1) % 16

\* Rng::gen_range(1..=power) on a StdRng in a given state: the face it yields,
\* and the faces of n successive calls, each leaving the next state behind
gen_range(state, pow) == 1 + (state % pow)

RECURSIVE StdRngFaces(_, _, _)
StdRngFaces(state, n, pow) ==
    IF n = 0 THEN <<>>
    ELSE <<gen_range(state, pow)>>
         \o StdRngFaces((state * 5 + 3) % 16, n - 1, pow)

\* FastRoller::new_seeded(seed) rolling count d pow
FastNewSeeded(s, count, pow) ==
    FastVisitDice(StdRngFaces(seed_from_u64(s), abs(count), abs(pow)),
                  count, pow, <<>>)

\* NaiveRoller::new_seeded(seed) rolling count d pow
NaiveNewSeeded(s, count, pow) ==
    RollManyOutcomes(StdRngFaces(seed_from_u64(s), abs(count), abs(pow)),
                     count, pow)

\* ziggurat on z = multiconvolve(count, power): what its loop can return over
\* the draws of thread_rng(); u is accepted when some v of 1..max is <= nth(u),
\* and a u outside the vector aborts
ZigguratOutcomes(z, count, pow) ==
    {IF nth(z, sum_u).k = "Panic" THEN Panic ELSE Ok(sum_u)
     : sum_u \in {c \in count..((count * pow + 1) - 1) :
                     \/ nth(z, c).k = "Panic"
                     \/ \E accept \in 1..((max_convolved(z) + 1) - 1) :
                            accept <= nth(z, c).v}}

ziggurat(count, pow) == ZigguratOutcomes(multiconvolve(count, pow), count, pow)

Strategies == {"fast", "tagged", "exact"}

InitSeeded ==
    /\ ParserIdle
    /\ pc = "start"
    /\ quantity \in 1..MaxCount
    /\ power \in 1..MaxFaces
    /\ augments = <<>> /\ faces = <<>> /\ dice = <<>> /\ step = 0 /\ before = <<>>
    /\ totals = [naive |-> NoResult, fast |-> NoResult, augmented |-> NoResult,
                 many |-> NoResult]
    /\ BigIdle
    /\ SimIdle
    /\ RenderIdle
    /\ CacheIdle
    /\ VisitIdle
    /\ VerboseIdle
    /\ SimplifyIdle
    /\ seed \in 0..MaxSeed
    /\ runs = [s \in Strategies |-> <<>>]
    /\ ambient = 0

\* FastRoller::new_seeded(seed).roll(quantity d power)
FastSeeded ==
    /\ pc = "start"
    /\ Len(runs.fast) < MaxRuns
    /\ \E outcome \in FastNewSeeded(seed, quantity, power) :
           runs' = [runs EXCEPT !.fast = Append(@, outcome)]
    /\ UNCHANGED <<pc, seed, ambient>>
    /\ UNCHANGED parserVars
    /\ UNCHANGED rollVars
    /\ UNCHANGED bigVars
    /\ UNCHANGED simVars
    /\ UNCHANGED renderVars
    /\ UNCHANGED cacheVars
    /\ UNCHANGED visitVars
    /\ UNCHANGED verboseVars
    /\ UNCHANGED simplifyVars

\* NaiveRoller::new_seeded(seed).roll(quantity d power)
NaiveSeeded ==
    /\ pc = "start"
    /\ Len(runs.tagged) < MaxRuns
    /\ \E outcome \in NaiveNewSeeded(seed, quantity, power) :
           runs' = [runs EXCEPT !.tagged = Append(@, outcome)]
    /\ UNCHANGED <<pc, seed, ambient>>
    /\ UNCHANGED parserVars
    /\ UNCHANGED rollVars
    /\ UNCHANGED bigVars
    /\ UNCHANGED simVars
    /\ UNCHANGED renderVars
    /\ UNCHANGED cacheVars
    /\ UNCHANGED visitVars
    /\ UNCHANGED verboseVars
    /\ UNCHANGED simplifyVars

\* BigRoller::default().visit_dice(quantity, power): BigRoller has no seed,
\* and ziggurat takes thread_rng() once for its loop
ExactRoll ==
    /\ pc = "start"
    /\ Len(runs.exact) < MaxRuns
    /\ \E outcome \in ziggurat(quantity, power) :
           runs' = [runs EXCEPT !.exact = Append(@, outcome)]
    /\ ambient' = ambient + 1
    /\ UNCHANGED <<pc, seed>>
    /\ UNCHANGED parserVars
    /\ UNCHANGED rollVars
    /\ UNCHANGED bigVars
    /\ UNCHANGED simVars
    /\ UNCHANGED renderVars
    /\ UNCHANGED cacheVars
    /\ UNCHANGED visitVars
    /\ UNCHANGED verboseVars
    /\ UNCHANGED simplifyVars

NextSeeded == FastSeeded \/ NaiveSeeded \/ ExactRoll
SpecSeeded == InitSeeded /\ [][NextSeeded]_vars

(* naive.rs, verbose.rs: a dice term with an Explode augmentation *)

Explosions ==
    {Explode(NoSelector)}
    \cup {Explode(Selector(relation, n)) : relation \in Relations, n \in Numbers}

InitExplode == InitRollOf(Explosions, MaxExplosions)

\* verbose_roll of the same term on the same random source, as
\* FastRoller::visit_dice calls it
VerboseRoll ==
    /\ pc = "rolled"
    /\ step = Len(augments)
    /\ \E rolls \in verbose_roll(faces, quantity, power, augments) :
           /\ rolls # OutOfFaces
           /\ verbose_rolls' = rolls
    /\ pc' = "done"
    /\ UNCHANGED parserVars
    /\ UNCHANGED rollVars
    /\ UNCHANGED bigVars
    /\ UNCHANGED simVars
    /\ UNCHANGED renderVars
    /\ UNCHANGED seedVars
    /\ UNCHANGED cacheVars
    /\ UNCHANGED visitVars
    /\ UNCHANGED simplifyVars

NextExplode == RollMany \/ Augment \/ VerboseRoll
SpecExplode == InitExplode /\ [][NextExplode]_vars

(* simplify.rs: advanced_simplify on a dice term *)

\* RollerOptions::default()
RollerOptionsDefault == [assumed_quantity |-> 1, assumed_power |-> 6]

RECURSIVE advanced_simplify(_, _, _)
advanced_simplify(expr, options, steps) ==
    LET is_one(e) == e.kind = "Constant" /\ e.c = 1
        is_zero(e) == e.kind = "Constant" /\ e.c = 0
        Operand(side, assumed) ==
            IF side # Absent THEN advanced_simplify(side, options, steps)
            ELSE IF "INLINE_IMPLICIT_OPTIONS" \in steps THEN Constant(assumed)
            ELSE Absent
        Replaced(q, p) ==
            IF "REPLACE_CONSTANT_VALUED_DICE" \in steps /\ is_one(p) /\ q # Absent
            THEN q
            ELSE IF /\ "REPLACE_CONSTANT_VALUED_DICE" \in steps
                    /\ is_zero(p) \/ is_zero(q)
            THEN Constant(0)
            ELSE Dice(q, p, expr.augmentations)
    IN  IF expr.kind = "Dice"
        THEN Replaced(Operand(expr.count, options.assumed_quantity),
                      Operand(expr.power, options.assumed_power))
        ELSE expr

\* a dice term of a constant power, of a constant quantity or of none, that
\* carries at most MaxFilters filters; without a quantity one die is rolled
InitSimplify ==
    /\ input = <<>>
    /\ value = NoResult
    /\ pc = "start"
    /\ quantity \in (-MaxQuantity)..MaxQuantity
    /\ power \in 0..MaxPower
    /\ augments \in ListsOf(Filters, MaxFilters)
    /\ \/ result = Ok(Dice(Constant(quantity), Constant(power), augments))
       \/ quantity = 1 /\ result = Ok(Dice(Absent, Constant(power), augments))
    /\ faces \in [1..(IF power = 0 THEN 0 ELSE abs(quantity)) -> 1..power]
    /\ dice = <<>>
    /\ step = 0
    /\ before = <<>>
    /\ totals = [naive |-> NoResult, fast |-> NoResult, augmented |-> NoResult,
                 many |-> NoResult]
    /\ BigIdle
    /\ SimIdle
    /\ RenderIdle
    /\ SeedIdle
    /\ CacheIdle
    /\ VisitIdle
    /\ VerboseIdle
    /\ enabled_steps \in SUBSET {"INLINE_IMPLICIT_OPTIONS",
                                  "REPLACE_CONSTANT_VALUED_DICE"}
    /\ simplified = NoResult

\* advanced_simplify(expr, &RollerOptions::default(), steps) on the term both
\* strategies evaluated
Simplify ==
    /\ pc = "done"
    /\ result.k = "Ok"
    /\ simplified' = advanced_simplify(result.v, RollerOptionsDefault,
                                       enabled_steps)
    /\ pc' = "simplified"
    /\ UNCHANGED enabled_steps
    /\ UNCHANGED parserVars
    /\ UNCHANGED rollVars
    /\ UNCHANGED bigVars
    /\ UNCHANGED simVars
    /\ UNCHANGED renderVars
    /\ UNCHANGED seedVars
    /\ UNCHANGED cacheVars
    /\ UNCHANGED visitVars
    /\ UNCHANGED verboseVars

NextSimplify == RollMany \/ Augment \/ Total \/ FastDice \/ Simplify
SpecSimplify == InitSimplify /\ [][NextSimplify]_vars

(* visitor.rs: the calls Visitor::visit makes on a strategy *)

Call(name, operator, c) == [call |-> name, operator |-> operator, c |-> c]

Returned(log, val) == [calls |-> log, val |-> val]

visit_constant(strategy, c) ==
    IF strategy = "fast" THEN FastVisitConstant(c) ELSE NaiveVisitConstant(c)

visit_negation(strategy, val) ==
    IF strategy = "fast" THEN {FastVisitNegation(val)}
    ELSE NaiveVisitNegation(val)

visit_binop(strategy, op, lhs, rhs) ==
    IF strategy = "fast" THEN FastVisitBinop(op, lhs, rhs)
    ELSE NaiveVisitBinop(op, lhs, rhs)

\* visit_dice on a term without augmentations whose dice show the faces fs:
\* FastRoller reads its count first, NaiveRoller its power; the value of a
\* NaiveValue::Dice is read through total() alone
visit_dice(strategy, fs, count, pow) ==
    IF strategy = "fast"
    THEN IF count.k # "Ok" THEN {count}
         ELSE IF pow.k # "Ok" THEN {pow}
         ELSE FastVisitDice(fs, count.v, pow.v, <<>>)
    ELSE IF pow.k # "Ok" THEN {pow}
         ELSE IF count.k # "Ok" THEN {count}
         ELSE UNION {IF rolled.k = "Ok" THEN total(rolled.v) ELSE {rolled}
                     : rolled \in RollManyOutcomes(fs, count.v, pow.v)}

\* default_quantity, default_power: RollerConfig::default()
default_quantity == Returned(<<>>, Ok(1))
default_power == Returned(<<>>, Ok(6))

\* Visitor::visit on a strategy: the calls it makes, in order, and what it
\* returns; a call that panics is the last one
RECURSIVE visit(_, _, _)
visit(strategy, fs, expr) ==
    CASE expr.kind = "Dice" ->
            UNION {IF q.val.k = "Panic" THEN {q}
                   ELSE UNION {IF p.val.k = "Panic"
                               THEN {Returned(q.calls \o p.calls, Panic)}
                               ELSE {Returned(q.calls \o p.calls
                                              \o <<Call("visit_dice", "None", 0)>>,
                                              val)
                                     : val \in visit_dice(strategy, fs,
                                                          q.val, p.val)}
                               : p \in IF expr.power = Absent
                                       THEN {default_power}
                                       ELSE visit(strategy, fs, expr.power)}
                   : q \in IF expr.count = Absent THEN {default_quantity}
                           ELSE visit(strategy, fs, expr.count)}
      [] expr.kind = "Binop" ->
            UNION {IF l.val.k = "Panic" THEN {l}
                   ELSE {IF r.val.k = "Panic"
                         THEN Returned(l.calls \o r.calls, Panic)
                         ELSE Returned(l.calls \o r.calls
                                       \o <<Call("visit_binop", expr.operator, 0)>>,
                                       visit_binop(strategy, expr.operator,
                                                   l.val, r.val))
                         : r \in visit(strategy, fs, expr.rhs)}
                   : l \in visit(strategy, fs, expr.lhs)}
      [] expr.kind = "Constant" ->
            {Returned(<<Call("visit_constant", "None", expr.c)>>,
                      visit_constant(strategy, expr.c))}
      [] expr.kind \in {"Subexpression", "Annotated"} ->
            visit(strategy, fs, expr.e)
      [] expr.kind = "UnaryNegation" ->
            IF expr.e.kind = "UnaryNegation" THEN visit(strategy, fs, expr.e.e)
            ELSE UNION {IF x.val.k = "Panic" THEN {x}
                        ELSE {Returned(x.calls
                                       \o <<Call("visit_negation", "None", 0)>>,
                                       val)
                              : val \in visit_negation(strategy, x.val)}
                        : x \in visit(strategy, fs, expr.e)}

\* constants that fit i32, that fit i64 alone, and that fit neither
VisitedConstants ==
    {Constant(c) : c \in {0, 1, 2, I32_MAX + 1, I64_MAX + 1}}

RECURSIVE Negated(_, _)
Negated(k, expr) ==
    IF k = 0 THEN expr ELSE UnaryNegation(Negated(k - 1, expr))

\* the operators of each strategy: fast.rs has no Chain
OperatorsOf(strategy) ==
    IF strategy = "fast" THEN Operators ELSE Operators \cup {"Chain"}

\* constants, and sums of two constants, under 0..MaxNesting negations; every
\* operator over constants and negated constants, and over a product on either
\* side; dice terms of at most two dice of two faces, or of six
VisitedExpressions(strategy) ==
    {Negated(k, x) : k \in 0..MaxNesting, x \in VisitedConstants}
    \cup {Negated(k, Binop("Add", a, b))
          : k \in 0..MaxNesting, a \in VisitedConstants, b \in VisitedConstants}
    \cup {Binop(op, Negated(j, a), Negated(k, b))
          : op \in OperatorsOf(strategy), j \in 0..1, k \in 0..1,
            a \in VisitedConstants, b \in VisitedConstants}
    \cup {Binop(op, Binop("Multiply", a, b), c)
          : op \in OperatorsOf(strategy), a \in VisitedConstants,
            b \in VisitedConstants, c \in VisitedConstants}
    \cup {Binop(op, a, Binop("Multiply", b, c))
          : op \in OperatorsOf(strategy), a \in VisitedConstants,
            b \in VisitedConstants, c \in VisitedConstants}
    \cup {Dice(a, b, <<>>)
          : a \in {Constant(c) : c \in {0, 1, 2, I64_MAX + 1}} \cup {Absent},
            b \in {Constant(c) : c \in {0, 2, I64_MAX + 1}} \cup {Absent}}

InitTraversal ==
    /\ input = <<>>
    /\ pc = "parsed"
    /\ roller \in {"fast", "tagged"}
    /\ \E expr \in VisitedExpressions(roller) : result = Ok(expr)
    /\ value = NoResult
    /\ quantity = 0 /\ power = 0 /\ augments = <<>>
    /\ faces \in [1..2 -> 1..2]
    /\ dice = <<>> /\ step = 0 /\ before = <<>>
    /\ totals = [naive |-> NoResult, fast |-> NoResult, augmented |-> NoResult,
                 many |-> NoResult]
    /\ BigIdle
    /\ SimIdle
    /\ RenderIdle
    /\ SeedIdle
    /\ CacheIdle
    /\ VerboseIdle
    /\ SimplifyIdle
    /\ calls = <<>>
    /\ visited = NoResult

\* roll(expr) of the chosen strategy: self.visit(expr)
Visit ==
    /\ pc = "parsed"
    /\ result.k = "Ok"
    /\ \E r \in visit(roller, faces, result.v) :
           calls' = r.calls /\ visited' = r.val
    /\ pc' = "visited"
    /\ UNCHANGED roller
    /\ UNCHANGED parserVars
    /\ UNCHANGED rollVars
    /\ UNCHANGED bigVars
    /\ UNCHANGED simVars
    /\ UNCHANGED renderVars
    /\ UNCHANGED seedVars
    /\ UNCHANGED cacheVars
    /\ UNCHANGED verboseVars
    /\ UNCHANGED simplifyVars

NextTraversal == Visit
SpecTraversal == InitTraversal /\ [][NextTraversal]_vars

(* big.rs: the caches of the memoize attributes *)

Capacity == 128

Cached(cache, key) == \E i \in 1..Len(cache) : cache[i] = key

\* #[memoize(Capacity: 128)]: the call looks its key up in an LRU cache; a hit
\* makes the key the most recently used, a miss computes the value and puts
\* it, dropping the least recently used key of a full cache
MemoizeCapacity(cache, key) ==
    IF Cached(cache, key)
    THEN Append(SelectSeq(cache, LAMBDA k : k # key), key)
    ELSE IF Len(cache) >= Capacity THEN Append(Tail(cache), key)
    ELSE Append(cache, key)

\* #[memoize]: the cache is a HashMap, which only ever grows
Memoize(cache, key) == IF Cached(cache, key) THEN cache ELSE Append(cache, key)

\* the calls of convolve in the loop of multiconvolve(count, power): the i-th
\* call convolves the vector of i dice with the vector of one die
RECURSIVE ConvolveCalls(_, _, _)
ConvolveCalls(cache, n, pow) ==
    IF n = 0 THEN cache
    ELSE MemoizeCapacity(ConvolveCalls(cache, n - 1, pow), <<n, pow>>)

\* a call of multiconvolve(count, power): its body runs on a miss only
CallMulticonvolve(cs, count, pow) ==
    IF Cached(cs.multiconvolve, <<count, pow>>)
    THEN [cs EXCEPT !.multiconvolve = MemoizeCapacity(@, <<count, pow>>)]
    ELSE [cs EXCEPT !.convolve = ConvolveCalls(@, count - 1, pow),
                    !.multiconvolve = MemoizeCapacity(@, <<count, pow>>)]

\* a call of max_convolved(count, power)
CallMaxConvolved(cs, count, pow) ==
    IF Cached(cs.max_convolved, <<count, pow>>)
    THEN [cs EXCEPT !.max_convolved = MemoizeCapacity(@, <<count, pow>>)]
    ELSE [CallMulticonvolve(cs, count, pow)
          EXCEPT !.max_convolved = MemoizeCapacity(@, <<count, pow>>)]

\* a call of nth(count, power, n)
CallNth(cs, count, pow, n) ==
    IF Cached(cs.nth, <<count, pow, n>>) THEN cs
    ELSE [CallMulticonvolve(cs, count, pow)
          EXCEPT !.nth = Memoize(@, <<count, pow, n>>)]

\* one dice term, of few faces or of more faces than a cache has entries
InitCache ==
    /\ ParserIdle
    /\ pc = "start"
    /\ \/ quantity \in 1..MaxCount /\ power \in 1..MaxFaces
       \/ quantity = 1 /\ power = Capacity + 1
    /\ augments = <<>> /\ faces = <<>> /\ dice = <<>> /\ step = 0 /\ before = <<>>
    /\ totals = [naive |-> NoResult, fast |-> NoResult, augmented |-> NoResult,
                 many |-> NoResult]
    /\ BigIdle
    /\ SimIdle
    /\ RenderIdle
    /\ SeedIdle
    /\ VisitIdle
    /\ VerboseIdle
    /\ SimplifyIdle
    /\ caches = [convolve |-> <<>>, multiconvolve |-> <<>>,
                 max_convolved |-> <<>>, nth |-> <<>>]

\* ziggurat, line 61: max_convolved(count, power)
MaxConvolved ==
    /\ pc = "start"
    /\ caches' = CallMaxConvolved(caches, quantity, power)
    /\ pc' = "drawing"
    /\ UNCHANGED parserVars
    /\ UNCHANGED rollVars
    /\ UNCHANGED bigVars
    /\ UNCHANGED simVars
    /\ UNCHANGED renderVars
    /\ UNCHANGED seedVars
    /\ UNCHANGED visitVars
    /\ UNCHANGED verboseVars
    /\ UNCHANGED simplifyVars

\* ziggurat, line 71: nth(count, power, u) on the candidate u of one turn of
\* the loop; a candidate is one met before or the least one not yet met
Nth ==
    /\ pc = "drawing"
    /\ \E n \in {k \in quantity..(quantity * power) :
                    k <= quantity + Len(caches.nth)} :
           caches' = CallNth(caches, quantity, power, n)
    /\ \E returns \in BOOLEAN : pc' = IF returns THEN "start" ELSE "drawing"
    /\ UNCHANGED parserVars
    /\ UNCHANGED rollVars
    /\ UNCHANGED bigVars
    /\ UNCHANGED simVars
    /\ UNCHANGED renderVars
    /\ UNCHANGED seedVars
    /\ UNCHANGED visitVars
    /\ UNCHANGED verboseVars
    /\ UNCHANGED simplifyVars

NextCache == MaxConvolved \/ Nth
SpecCache == InitCache /\ [][NextCache]_vars

(* syntax.rs, visitor.rs: labelled sub-expressions *)

Labels == {<<"x">>, <<"y">>}

\* "(a op b)[l]"
LabelledTexts ==
    {g \o <<"[">> \o l \o <<"]">> : g \in GroupTexts, l \in Labels}

\* a group of one operator over two literals, labelled
LabelledGroups ==
    {Annotated(Subexpression(Binop(op, Constant(a), Constant(b))), l)
     : op \in ArithOperators, a \in Literals, b \in Literals, l \in Labels}

\* the sum of two labelled groups, as a text for parse and as an Expression
\* built by the caller of a strategy
InitAnnotated ==
    \/ InitParser({InfixText(a, "Add", b) : a \in LabelledTexts,
                                            b \in LabelledTexts})
    \/ /\ input = <<>>
       /\ pc = "parsed"
       /\ \E a \in LabelledGroups, b \in LabelledGroups :
              result = Ok(Binop("Add", a, b))
       /\ value = NoResult
       /\ RollIdle
       /\ BigIdle
       /\ SimIdle
       /\ RenderIdle
       /\ SeedIdle
       /\ CacheIdle
       /\ VisitIdle
       /\ VerboseIdle
       /\ SimplifyIdle

NextAnnotated == Parse \/ FastRoll \/ NaiveRoll
SpecAnnotated == InitAnnotated /\ [][NextAnnotated]_vars

-----------------------------------------------------------------------------
(* Properties of the parser *)

Parsed == pc # "start"

\* C1: multiplication binds tighter than addition and subtraction:
\* "a op b * c" parses to Binop(op, a, Binop(*, b, c)) and "a * b op c" to
\* Binop(op, Binop(*, a, b), c) for all literals a, b, c and op in {+, -},
\* and the fast strategy evaluates "2 + 3 * 4" to 14.
PrecedenceCases ==
    UNION {{<<ChainText(<<a, b, c>>, <<op, "Multiply">>),
              Ok(Binop(op, Constant(a),
                       Binop("Multiply", Constant(b), Constant(c))))>>,
            <<ChainText(<<a, b, c>>, <<"Multiply", op>>),
              Ok(Binop(op, Binop("Multiply", Constant(a), Constant(b)),
                       Constant(c)))>>}
           : a \in Literals, b \in Literals, c \in Literals,
             op \in {"Add", "Subtract"}}

TwoPlusThreeTimesFour == <<"2", " ", "+", " ", "3", " ", "*", " ", "4">>

C1_MultiplicationBindsTighter ==
    /\ Parsed => \A case \in PrecedenceCases :
                     input = case[1] => result = case[2]
    /\ (pc = "done" /\ input = TwoPlusThreeTimesFour) => value = Ok(14)

C1_Witness ==
    /\ pc = "done"
    /\ input = TwoPlusThreeTimesFour
    /\ result = Ok(Binop("Add", Constant(2),
                         Binop("Multiply", Constant(3), Constant(4))))
    /\ value = Ok(14)

\* two operands with only whitespace between them: the end of a literal or
\* of a group, at least one whitespace character, the start of a literal or
\* of a group
AdjacentOperands(chars) ==
    \E i \in 1..Len(chars), j \in 1..Len(chars) :
        /\ i + 1 < j
        /\ chars[i] \in AsciiDigits \cup {")"}
        /\ chars[j] \in AsciiDigits \cup {"("}
        /\ \A h \in (i + 1)..(j - 1) : is_whitespace(chars[h])

\* C2: an input in which two operands are adjacent with no binary operator
\* between them is rejected (with MissingOperator): parse never returns an
\* expression for it, in which an operand was dropped or combined.
C2_AdjacentOperandsRejected ==
    (Parsed /\ AdjacentOperands(input)) => result.k # "Ok"

\* the value of "a op b op c ..." by the usual rules: products first, then
\* sums and differences from left to right
RECURSIVE ConventionalValue(_, _, _, _)
ConventionalValue(chars, acc, sign, prod) ==
    IF chars = <<>> THEN acc + sign * prod
    ELSE LET sym == chars[2]
             len == DigitsLen(From(chars, 3))
             n == NumberOf(From(chars, 3), len, 1)
             rest == From(chars, 3 + len)
         IN  CASE sym = "*" -> ConventionalValue(rest, acc, sign, prod * n)
               [] sym = "+" -> ConventionalValue(rest, acc + sign * prod, 1, n)
               [] sym = "-" -> ConventionalValue(rest, acc + sign * prod, -1, n)

Conventional(chars) ==
    LET len == DigitsLen(chars)
    IN  ConventionalValue(From(chars, len), 0, 1, NumberOf(chars, len, 1))

\* C3: for a sequence of literals separated by +, - and *, the tree the
\* two-stack reduction builds evaluates to the conventional value: * binds
\* tighter, operators of equal rank apply from left to right.
C3_ChainHasConventionalValue ==
    pc = "done" => value = Ok(Conventional(input))

\* C4: parse is total: for every input it returns an Expression or a
\* ParsingError, and never aborts.
C4_ParseIsTotal ==
    Parsed => result.k \in {"Ok", "Err"}

\* the parentheses of chars scanned from the left: open counts the '(' not
\* yet closed, right tells whether a ')' came with nothing to close
RECURSIVE ScanParens(_, _, _, _)
ScanParens(chars, i, open, right) ==
    IF i > Len(chars) THEN [open |-> open, right |-> right]
    ELSE IF chars[i] = "(" THEN ScanParens(chars, i + 1, open + 1, right)
    ELSE IF chars[i] = ")"
    THEN IF open = 0 THEN ScanParens(chars, i + 1, open, TRUE)
         ELSE ScanParens(chars, i + 1, open - 1, right)
    ELSE ScanParens(chars, i + 1, open, right)

UnmatchedLeft(chars) == ScanParens(chars, 1, 0, FALSE).open > 0
UnmatchedRight(chars) == ScanParens(chars, 1, 0, FALSE).right

\* C5 as claimed: every input with an unmatched '(' fails with
\* UnbalancedLeftParen, every input with an unmatched ')' fails with
\* UnbalancedRightParen, and a balanced input gets neither error (runs that
\* abort are the subject of C4 and are not counted here).
C5_EveryUnbalancedInputGetsItsError ==
    (Parsed /\ result.k # "Panic") =>
        /\ UnmatchedLeft(input) => result = Err(UnbalancedLeftParen)
        /\ UnmatchedRight(input) => result = Err(UnbalancedRightParen)
        /\ (~UnmatchedLeft(input) /\ ~UnmatchedRight(input)) =>
               result \notin {Err(UnbalancedLeftParen), Err(UnbalancedRightParen)}

\* C5 amended: UnbalancedLeftParen is reported only for an input with an
\* unmatched '(', UnbalancedRightParen only for an input with an unmatched
\* ')', so neither for a balanced input; and an input with an unmatched
\* parenthesis never parses to an expression (the error it gets is the one
\* of the first fault the scan meets).
C5_UnbalancedErrorsAreSound ==
    Parsed =>
        /\ result = Err(UnbalancedLeftParen) => UnmatchedLeft(input)
        /\ result = Err(UnbalancedRightParen) => UnmatchedRight(input)
        /\ (UnmatchedLeft(input) \/ UnmatchedRight(input)) => result.k # "Ok"

C5_Witness ==
    /\ Parsed
    /\ UnmatchedLeft(input)
    /\ UnmatchedRight(input)
    /\ result = Err(UnbalancedRightParen)

\* C6: the character UndefinedSymbol carries is never whitespace, a digit,
\* a binary operator symbol, 'd' or '('.
C6_UndefinedSymbolIsUndefined ==
    (Parsed /\ result.k = "Err" /\ result.err.e = "UndefinedSymbol") =>
        /\ ~is_whitespace(result.err.char)
        /\ ~is_ascii_digit(result.err.char)
        /\ parse_operator(result.err.char) = "None"
        /\ result.err.char \notin {"d", "("}

\* C7: the empty string and the empty group "()" fail with EmptyExpression.
C7_EmptyInputIsEmptyExpression ==
    (Parsed /\ input \in {<<>>, <<"(", ")">>}) => result = Err(EmptyExpression)

\* C8: a '-' directly before a term parses to UnaryNegation of the term,
\* for the first term and for a term after a binary operator alike, and a
\* leading '+' parses to the term itself.
C8_EveryTermMayBeSigned ==
    Parsed =>
        \A a \in {"1", "2"}, b \in {"1", "2"} :
            /\ input = <<"-", a>> =>
                   result = Ok(UnaryNegation(Constant(to_digit(a))))
            /\ input = <<"+", a>> => result = Ok(Constant(to_digit(a)))
            /\ \A sym \in {"+", "-", "*"} :
                   input = <<a, sym, "-", b>> =>
                       result = Ok(Binop(parse_operator(sym),
                                         Constant(to_digit(a)),
                                         UnaryNegation(Constant(to_digit(b)))))

-----------------------------------------------------------------------------
(* Properties of the augmentations *)

\* the positions of the values not marked discarded
Retained(rolled) == {i \in 1..Len(rolled) : "DISCARDED" \notin rolled[i].tag}

RetainedSum(rolled) ==
    Sum([i \in 1..Len(rolled) |->
            IF i \in Retained(rolled) THEN rolled[i].value ELSE 0])

\* C9: a truncation with count n, applied when at least n values are still
\* retained, leaves exactly n retained values, all of them among the values
\* retained before it: the n highest of those for keep-highest and
\* drop-lowest, the n lowest of those for keep-lowest and drop-highest
C9_TruncateLeavesNOfTheRetained ==
    (step > 0 /\ augments[step].aug = "Truncate") =>
        LET augment == augments[step]
            n == IF augment.n = NoNumber THEN 1 ELSE augment.n
            was == Retained(before)
            is == Retained(dice)
            high == <<augment.kind, augment.affix>>
                        \in {<<"Keep", "High">>, <<"Drop", "Low">>}
        IN  n <= Cardinality(was) =>
                /\ is \subseteq was
                /\ Cardinality(is) = n
                /\ \A i \in is : \A j \in was \ is :
                       IF high THEN dice[i].value >= dice[j].value
                       ELSE dice[i].value <= dice[j].value

\* C10: for a dice term with augmentations, the total of the tagged strategy
\* and the value of the fast strategy on the same rolls both equal the sum of
\* the values not marked discarded.  Stated for the lists of truncations,
\* whose discard marks are those of the code alone and whose rolls are the
\* same in both strategies.
OnlyTruncations(augs) == \A i \in 1..Len(augs) : augs[i].aug = "Truncate"

C10_TotalIsSumOfRetained ==
    (pc = "done" /\ augments # <<>> /\ OnlyTruncations(augments)) =>
        /\ totals.naive = Ok(RetainedSum(dice))
        /\ totals.fast = Ok(RetainedSum(dice))

\* a value satisfies the relation of a selector to its n
Satisfies(x, selector) ==
    CASE selector.relation = "Less" -> x < selector.n
      [] selector.relation = "Equal" -> x = selector.n
      [] selector.relation = "Greater" -> x > selector.n

\* what a filter is to discard: Keep what does not satisfy, Drop what does
FilterDiscards(x, augment) ==
    IF augment.kind = "Keep" THEN ~Satisfies(x, augment.selector)
    ELSE Satisfies(x, augment.selector)

\* the drawn faces that no filter of the list is to discard, in roll order
RECURSIVE KeptFaces(_, _)
KeptFaces(fs, augs) ==
    IF fs = <<>> THEN <<>>
    ELSE IF \E j \in 1..Len(augs) : FilterDiscards(Head(fs), augs[j])
    THEN KeptFaces(Tail(fs), augs)
    ELSE <<Head(fs)>> \o KeptFaces(Tail(fs), augs)

FiveD10 == <<1, 4, 2, 9, 3>>
DropLessThan3 == <<Filter("Drop", Selector("Less", 3))>>

\* 5d10d<3 on the rolls [1, 4, 2, 9, 3], in the fast and the tagged strategy
FiveD10DropLessThan3 ==
    /\ FastVisitDice(FiveD10, 5, 10, DropLessThan3) = {Ok(16)}
    /\ \A rolled \in AugmentOutcomes(roll_many(FiveD10, 5, 10), DropLessThan3[1]) :
           /\ Retained(rolled) = {2, 4, 5}
           /\ RetainedSum(rolled) = 16

IsTruncationFailure(r) == r.k = "Err" /\ r.err = "TruncationFailure"

\* C12: a term whose one augmentation is a truncation with a count above the
\* number of dice rolled fails with TruncationFailure in every strategy; it
\* neither succeeds nor aborts.
C12_ExcessTruncationFails ==
    (/\ pc \in {"done", "end"}
     /\ Len(augments) = 1
     /\ augments[1].aug = "Truncate"
     /\ optional_big_uint_to_usize_or_1(augments[1].n) > quantity) =>
        /\ IsTruncationFailure(totals.naive)
        /\ IsTruncationFailure(totals.fast)
        /\ pc = "end" => IsTruncationFailure(totals.augmented)

\* C13: no step of the tagged strategy clears a discard mark: a value marked
\* discarded before a step is marked discarded after it.
C13_DiscardIsMonotonic ==
    [][\A i \in 1..Len(dice) :
           "DISCARDED" \in dice[i].tag =>
               i <= Len(dice') /\ "DISCARDED" \in dice'[i].tag]_vars

C13_Witness ==
    /\ step = 2
    /\ augments[1].aug = "Filter"
    /\ augments[2].aug = "Truncate"
    /\ Len(dice) = 3
    /\ Retained(before) = {1, 2}
    /\ Retained(dice) = {1}

\* every face of the die satisfies some Explode condition of the term
EveryFaceExplodes(augs, pow) ==
    \A face \in 1..pow : check_explosion(ExplodeConditions(augs), face, pow)

\* C14: the fast strategy answers InfiniteExplosion exactly for the terms
\* whose every face explodes.
C14_InfiniteExplosionIffEveryFaceExplodes ==
    (pc \in {"done", "end"} /\ augments # <<>>) =>
        (totals.fast = Err("InfiniteExplosion")
             <=> EveryFaceExplodes(augments, power))

-----------------------------------------------------------------------------
(* Properties of the fixed-width strategies *)

IsWidthError(r) == r.k = "Err" /\ r.err \in {"Overflow", "ValueTooLarge"}

\* the sign a term of this quantity and power gives its total
TermSign == signum(quantity) * signum(power)

\* C15: for every quantity and power within the working width, the most
\* negative value included, and every sequence of faces, each strategy's
\* total of a dice term, augmented or not, is the exact sum of the values or
\* an Overflow / ValueTooLarge error: never a wrapped number, never an abort.
\* NaiveValue::total folds every roll of its vector, fast_roll_many sums the
\* faces, FastRoller::visit_dice the faces its filters leave
C15_DiceSumsNeverWrap ==
    /\ totals.naive # NoResult =>
           \/ IsWidthError(totals.naive)
           \/ totals.naive = Ok(Sum([i \in 1..Len(dice) |-> dice[i].value]))
    /\ totals.fast # NoResult =>
           \/ IsWidthError(totals.fast)
           \/ totals.fast = Ok(TermSign * Sum(KeptFaces(faces, augments)))
    /\ totals.many # NoResult =>
           \/ IsWidthError(totals.many)
           \/ totals.many = Ok(TermSign * Sum(faces))

\* the expression being evaluated is the constant c, a lone negation, or
\* one arithmetic operator on two constants
IsConstant(expr) == expr.kind = "Constant"
IsNegatedConstant(expr) == expr.kind = "UnaryNegation" /\ IsConstant(expr.e)
IsArithmetic(expr) ==
    /\ expr.kind = "Binop"
    /\ expr.operator \in {"Add", "Subtract", "Multiply"}
    /\ IsConstant(expr.lhs) /\ IsConstant(expr.rhs)

\* C16: evaluating Constant(c) in a fixed-width strategy returns c when c
\* fits the strategy's width and the ValueTooLarge error otherwise: no abort,
\* no truncated value
C16_ConstantFitsOrValueTooLarge ==
    (pc # "parsed" /\ result.k = "Ok" /\ IsConstant(result.v)) =>
        /\ value # NoResult =>
               value = try_from_big_int(result.v.c, I32_MIN, I32_MAX)
        /\ totals.naive # NoResult =>
               totals.naive = try_from_big_int(result.v.c, I64_MIN, I64_MAX)

\* the exact result of the arithmetic expression expr
Exact(expr) ==
    IF expr.kind = "UnaryNegation" THEN -expr.e.c
    ELSE CASE expr.operator = "Add" -> expr.lhs.c + expr.rhs.c
           [] expr.operator = "Subtract" -> expr.lhs.c - expr.rhs.c
           [] expr.operator = "Multiply" -> expr.lhs.c * expr.rhs.c

OperandsFit(expr, lo, hi) ==
    IF expr.kind = "UnaryNegation" THEN lo <= expr.e.c /\ expr.e.c <= hi
    ELSE /\ lo <= expr.lhs.c /\ expr.lhs.c <= hi
         /\ lo <= expr.rhs.c /\ expr.rhs.c <= hi

ExactOrOverflow(expr, lo, hi) ==
    IF lo <= Exact(expr) /\ Exact(expr) <= hi THEN Ok(Exact(expr))
    ELSE Err("Overflow")

\* C17: for operands within the working width, visit_binop with Add,
\* Subtract or Multiply and visit_negation return the exact result when it
\* fits the width and the Overflow error otherwise: never a wrapped value,
\* never an abort
C17_ArithmeticIsCheckedEverywhere ==
    (pc # "parsed" /\ result.k = "Ok"
       /\ (IsArithmetic(result.v) \/ IsNegatedConstant(result.v))) =>
        /\ (value # NoResult /\ OperandsFit(result.v, I32_MIN, I32_MAX)) =>
               value = ExactOrOverflow(result.v, I32_MIN, I32_MAX)
        /\ (totals.naive # NoResult /\ OperandsFit(result.v, I64_MIN, I64_MAX)) =>
               totals.naive = ExactOrOverflow(result.v, I64_MIN, I64_MAX)

\* a total of the sign of the term, no smaller than one per die and no
\* larger than the largest face on every die
TotalInRange(sum) ==
    /\ signum(sum) = TermSign
    /\ abs(quantity) * abs(TermSign) <= abs(sum)
    /\ abs(sum) <= abs(quantity) * abs(power)

\* C18: a dice term of quantity q and power p rolls exactly |q| values, each
\* of a magnitude in 1..|p| and of the sign sign(q) * sign(p), and none when
\* q or p is 0; the total of a term without augmentations has that sign and
\* a magnitude between |q| and |q| * |p| (0 when q or p is 0)
C18_RollsHaveCountRangeAndSign ==
    /\ totals.naive # Panic
    /\ pc \notin {"start"} =>
           /\ Len(dice) = abs(quantity) * abs(TermSign)
           /\ \A i \in 1..Len(dice) :
                  /\ signum(dice[i].value) = TermSign
                  /\ 1 <= abs(dice[i].value) /\ abs(dice[i].value) <= abs(power)
    /\ (augments = <<>> /\ totals.naive.k = "Ok") => TotalInRange(totals.naive.v)
    /\ totals.fast # Panic
    /\ (augments = <<>> /\ totals.fast.k = "Ok") => TotalInRange(totals.fast.v)
    /\ totals.many # Panic
    /\ totals.many.k = "Ok" => TotalInRange(totals.many.v)

-----------------------------------------------------------------------------
(* Properties of the exact distribution *)

\* the ordered outcomes of count dice with the faces 1..pow that add up to sum
Ways(count, pow, sum) ==
    Cardinality({outcome \in [1..count -> 1..pow] :
                    Sum([i \in 1..count |-> outcome[i]]) = sum})

JustConvolved == pc = "convolved"

\* C19: multiconvolve(count, power) has count * (power - 1) + 1 entries,
\* entry k (from 0) is the number of ordered outcomes of count dice with the
\* faces 1..power whose sum is count + k, and the entries add up to
\* power^count; for 2d6 the sums 2 and 12 have 1 outcome, the sum 7 has 6,
\* and there are 36 in all
C19_MulticonvolveCountsOutcomes ==
    JustConvolved =>
        /\ Len(mass) = quantity * (power - 1) + 1
        /\ \A k \in 0..(Len(mass) - 1) :
               mass[k + 1] = Ways(quantity, power, quantity + k)
        /\ Sum(mass) = power ^ quantity
        /\ (quantity = 2 /\ power = 6) =>
               /\ mass[(2 - 2) + 1] = 1 /\ mass[(12 - 2) + 1] = 1
               /\ mass[(7 - 2) + 1] = 6
               /\ Sum(mass) = 36

C19_Witness ==
    /\ JustConvolved
    /\ quantity = 2 /\ power = 6
    /\ mass = <<1, 2, 3, 4, 5, 6, 5, 4, 3, 2, 1>>

\* C20: every candidate u of ziggurat, drawn from count..count * power, is
\* tested against the mass of the sum u itself: a rejection value v from
\* 1..peak accepts u exactly when v is at most the number of ways to roll u;
\* the lookup of the mass stays inside the mass function, and a returned sum
\* lies in count..count * power
C20_ZigguratTestsTheMassOfItsCandidate ==
    /\ pc # "panicked"
    /\ (pc = "returned") =>
           /\ rejection <= Ways(quantity, power, candidate)
           /\ returned.v \in quantity..(quantity * power)
    /\ (pc = "rejected") =>
           rejection > Ways(quantity, power, candidate)

-----------------------------------------------------------------------------
(* Properties of the simulation *)

\* C21: simulate returns pairs (outcome, count) strictly ascending by
\* outcome, so that no outcome comes twice, every count is at least 1, and
\* there is no pair when no trial was asked for
C21_TableIsAscendingWithPositiveCounts ==
    pc = "returned" =>
        /\ \A i \in 1..(Len(output.v) - 1) : output.v[i][1] < output.v[i + 1][1]
        /\ \A i \in 1..Len(output.v) : output.v[i][2] >= 1
        /\ trials = 0 => output.v = <<>>

C21_Witness ==
    /\ pc = "returned"
    /\ trials = MaxTrials
    /\ Len(output.v) >= 2
    /\ \E i \in 1..Len(output.v) : output.v[i][2] >= 2

\* the trials that rolled the value n
TrialsOf(n) == {t \in 1..trials : trial_values[t] = Ok(n)}

\* C22: however the trials are split among the workers and in whatever
\* order the partial tables are merged, the returned table gives each
\* outcome exactly the number of trials that rolled it, and nothing else, so
\* that the counts add up to the number of trials; a trial changes the table
\* of its own worker alone
C22_MergedTableIsIndependentOfScheduling ==
    /\ [](pc = "returned" =>
            /\ \A n \in 1..MaxOutcome :
                   \/ TrialsOf(n) = {}
                      /\ \A i \in 1..Len(output.v) : output.v[i][1] # n
                   \/ \E i \in 1..Len(output.v) :
                          output.v[i] = <<n, Cardinality(TrialsOf(n))>>
            /\ \A i \in 1..Len(output.v) : output.v[i][1] \in 1..MaxOutcome
            /\ Sum([i \in 1..Len(output.v) |-> output.v[i][2]]) = trials)
    /\ [][\A t \in 1..trials :
              trial_values'[t] # trial_values[t] =>
                  \A w \in DOMAIN tables :
                      w # owner[t] => w \in DOMAIN tables' /\ tables'[w] = tables[w]]_vars

C22_Witness ==
    /\ pc = "returned"
    /\ trials = MaxTrials
    /\ \E t1, t2 \in 1..trials : owner[t1] # owner[t2] /\ trial_values[t1] = trial_values[t2]

-----------------------------------------------------------------------------
(* Properties of the renderer *)

\* the tree without its Subexpression nodes: the operators, their operands
\* and the grouping
RECURSIVE Grouping(_)
Grouping(expr) ==
    CASE expr.kind = "Binop" ->
            Binop(expr.operator, Grouping(expr.lhs), Grouping(expr.rhs))
      [] expr.kind = "Constant" -> expr
      [] expr.kind = "Subexpression" -> Grouping(expr.e)
      [] expr.kind = "UnaryNegation" -> UnaryNegation(Grouping(expr.e))
      [] expr.kind = "Dice" ->
            Dice(IF expr.count = Absent THEN Absent ELSE Grouping(expr.count),
                 IF expr.power = Absent THEN Absent ELSE Grouping(expr.power),
                 expr.augmentations)

\* C23: for every tree t that parse produces from constants, dice without
\* augmentations, groups, negations and binary operators, parse of the
\* rendered t succeeds and gives a tree of the same operators on the same
\* operands in the same grouping
C23_RenderThenParseKeepsTheGrouping ==
    pc = "reparsed" =>
        /\ reparsed.k = "Ok"
        /\ Grouping(reparsed.v) = Grouping(result.v)


\* C24: when one label is attached to two sub-expressions, the evaluation
\* succeeds if their results are equal and fails with DuplicateAnnotation,
\* carrying both expressions, if they differ; and the text of such a sum
\* parses.
DuplicateAnnotation(annotation, first, second) ==
    [e |-> "DuplicateAnnotation", annotation |-> annotation,
     first |-> first, second |-> second]

SameLabelTwice ==
    /\ result.k = "Ok"
    /\ result.v.kind = "Binop"
    /\ result.v.lhs.kind = "Annotated"
    /\ result.v.rhs.kind = "Annotated"
    /\ result.v.lhs.annotation = result.v.rhs.annotation

C24_SameLabelNeedsEqualResults ==
    /\ (pc = "parsed" /\ input # <<>>) => result.k = "Ok"
    /\ (pc \in {"done", "end"} /\ SameLabelTwice) =>
           IF FastVisit(result.v.lhs.e) = FastVisit(result.v.rhs.e)
           THEN value.k = "Ok"
           ELSE value = Err(DuplicateAnnotation(result.v.lhs.annotation,
                                                result.v.lhs.e, result.v.rhs.e))
    /\ (pc = "end" /\ SameLabelTwice) =>
           IF NaiveVisit(result.v.lhs.e) = NaiveVisit(result.v.rhs.e)
           THEN totals.naive.k = "Ok"
           ELSE totals.naive =
                    Err(DuplicateAnnotation(result.v.lhs.annotation,
                                            result.v.lhs.e, result.v.rhs.e))

\* C25: for every strategy, the rollers built from one seed return identical
\* results for one expression, and no strategy takes its values from the
\* ambient thread-local generator.
C25_SameSeedSameResult ==
    /\ \A s \in Strategies :
           \A i \in 1..Len(runs[s]), j \in 1..Len(runs[s]) :
               runs[s][i] = runs[s][j]
    /\ ambient = 0

\* C26: each of the four caches (convolve, multiconvolve, max_convolved, nth)
\* holds at most Capacity entries and holds no key twice, and a call that
\* misses a full cache drops the oldest entry to make room.
MemoizedFunctions == {"convolve", "multiconvolve", "max_convolved", "nth"}

C26_EveryCacheIsBounded ==
    /\ [](caches # <<>> =>
             \A f \in MemoizedFunctions :
                 /\ Len(caches[f]) <= Capacity
                 /\ \A i \in 1..Len(caches[f]), j \in 1..Len(caches[f]) :
                        caches[f][i] = caches[f][j] => i = j)
    /\ [][caches # <<>> =>
             \A f \in MemoizedFunctions :
                 (/\ Len(caches[f]) = Capacity
                  /\ ~Cached(caches[f], caches'[f][Len(caches'[f])]))
                 => caches'[f] = Append(Tail(caches[f]),
                                        caches'[f][Len(caches'[f])])]_vars

\* C27: around an expression x that is not itself a negation, k directly
\* nested UnaryNegation nodes make the traversal call visit_negation exactly
\* k mod 2 times and evaluate x exactly once; the result is visit(x) for even
\* k and the negation of visit(x) for odd k.
RECURSIVE Nesting(_)
Nesting(expr) ==
    IF expr.kind = "UnaryNegation" THEN 1 + Nesting(expr.e) ELSE 0

RECURSIVE Innermost(_)
Innermost(expr) ==
    IF expr.kind = "UnaryNegation" THEN Innermost(expr.e) ELSE expr

RECURSIVE ConstantsOf(_)
ConstantsOf(expr) ==
    CASE expr.kind = "Constant" -> <<expr.c>>
      [] expr.kind = "Binop" -> ConstantsOf(expr.lhs) \o ConstantsOf(expr.rhs)
      [] expr.kind \in {"UnaryNegation", "Subexpression", "Annotated"} ->
            ConstantsOf(expr.e)
      [] expr.kind = "Dice" ->
            (IF expr.count = Absent THEN <<>> ELSE ConstantsOf(expr.count))
            \o (IF expr.power = Absent THEN <<>> ELSE ConstantsOf(expr.power))

CallsOf(name) == SelectSeq(calls, LAMBDA call : call.call = name)

ConstantsVisited ==
    [i \in 1..Len(CallsOf("visit_constant")) |-> CallsOf("visit_constant")[i].c]

NegationOnly ==
    /\ result.v.kind = "UnaryNegation"
    /\ Innermost(result.v).kind = "Constant"
       \/ /\ Innermost(result.v).kind = "Binop"
          /\ Innermost(result.v).lhs.kind = "Constant"
          /\ Innermost(result.v).rhs.kind = "Constant"

C27_NegationsCollapseInPairs ==
    (pc = "visited" /\ NegationOnly) =>
        /\ Len(CallsOf("visit_negation")) = Nesting(result.v) % 2
        /\ ConstantsVisited = ConstantsOf(result.v)
        /\ \E x \in visit(roller, faces, Innermost(result.v)) :
               IF Nesting(result.v) % 2 = 0 THEN visited = x.val
               ELSE visited \in visit_negation(roller, x.val)

\* C28: for a Binop the traversal evaluates the whole left side, then the
\* whole right side, the right one also when the left one failed, and only
\* then calls visit_binop; when a side failed the result is an error, the
\* left side's when both failed, also for Chain. For a Dice it evaluates the
\* quantity, then the power, and only then calls visit_dice.
LastCall == calls[Len(calls)]

C28_BothSidesThenDispatch ==
    /\ (pc = "visited" /\ result.v.kind = "Binop") =>
           /\ ConstantsVisited = ConstantsOf(result.v)
           /\ calls # <<>>
           /\ LastCall.call = "visit_binop"
           /\ LastCall.operator = result.v.operator
           /\ \E l \in visit(roller, faces, result.v.lhs),
                 r \in visit(roller, faces, result.v.rhs) :
                  /\ l.val.k # "Ok" => visited.k = "Err" /\ visited = l.val
                  /\ (l.val.k = "Ok" /\ r.val.k # "Ok") =>
                         visited.k = "Err" /\ visited = r.val
    /\ (pc = "visited" /\ result.v.kind = "Dice") =>
           /\ ConstantsVisited = ConstantsOf(result.v)
           /\ calls # <<>>
           /\ LastCall.call = "visit_dice"

\* C29: under an Explode augmentation every rolled value that matches the
\* condition (the selector, or equality with power without one) adds exactly
\* one value, itself tested, so that the values number the quantity plus the
\* matching values; a matching value is flagged as exploding and an added
\* value as the product of an explosion; in the tagged and in the verbose
\* roll.
Explodes(x) ==
    \E i \in 1..Len(augments) :
        /\ augments[i].aug = "Explode"
        /\ IF augments[i].selector = NoSelector THEN x = power
           ELSE Cmp(x, augments[i].selector.n) = augments[i].selector.relation

Matching(values) == Cardinality({i \in 1..Len(values) : Explodes(values[i])})

\* the values drawn after the first quantity ones
Added(n) == {i \in (quantity + 1)..n : i <= Len(faces)}

C29_EveryMatchAddsOneValue ==
    /\ (pc = "rolled" /\ step = Len(augments) /\ HasExplode(augments)) =>
           /\ Len(dice) = quantity + Matching(Values(dice))
           /\ \A i \in 1..Len(dice) :
                  /\ "EXPLODES" \in dice[i].tag <=> Explodes(dice[i].value)
                  /\ "EXPLOSION" \in dice[i].tag <=> i > quantity
    /\ (pc = "done" /\ verbose_rolls.k = "Ok" /\ HasExplode(augments)) =>
           /\ Len(verbose_rolls.v) = quantity + Matching(Values(verbose_rolls.v))
           /\ \A x \in 1..power :
                  Cardinality({i \in 1..Len(verbose_rolls.v) :
                                  /\ verbose_rolls.v[i].value = x
                                  /\ verbose_rolls.v[i].exploded})
                  = Cardinality({i \in Added(Len(verbose_rolls.v)) : faces[i] = x})

\* C30: with REPLACE_CONSTANT_VALUED_DICE, a term of constant quantity 0 or
\* constant power 0 becomes Constant(0) and a term of constant quantity N and
\* power 1 becomes Constant(N); the constant that replaces a term is the total
\* both strategies give the term, its augmentations and the sign of N
\* included, whatever the dice show.
C30_ReplacementEqualsTheTotal ==
    (pc = "simplified" /\ "REPLACE_CONSTANT_VALUED_DICE" \in enabled_steps) =>
        /\ (result.v.count = Constant(0) \/ result.v.power = Constant(0)) =>
               simplified = Constant(0)
        /\ (result.v.count # Absent /\ result.v.power = Constant(1)) =>
               simplified = Constant(quantity)
        /\ simplified.kind = "Constant" =>
               /\ totals.naive = Ok(simplified.c)
               /\ totals.fast = Ok(simplified.c)
====
